---- MODULE Spec2Model ----
(***************************************************************************)
(* bgb: the porcelain blame parser (GitBlame) and the interactive session  *)
(* (TViewInit key handlers) as state machines.                             *)
(*                                                                         *)
(* A porcelain line is a tuple of its space-separated tokens, all strings: *)
(*   <<id, orig, final, size>>   group header                              *)
(*   <<id, orig, final>>         header of a later line of the group       *)
(*   <<TAB, text>>               content line (leading tab)                *)
(*   <<key, value...>>           metadata line                             *)
(* A string value (author, summary, file name) is the tuple of its tokens, *)
(* <<>> being the empty string; a commit id is one 40-character token.     *)
(* A *BlameChunk pointer is an index into the heap of chunks allocated by  *)
(* one GitBlame call; 0 is the nil pointer.                                *)
(***************************************************************************)
EXTENDS Integers, Sequences, FiniteSets, TLC

\* ------------------------------------------------------------------ bounds
\* longest stream the parser specification reads
MaxStream == 4
\* largest final-line number a header of the alphabet carries
MaxLineNo == 3
\* largest group size a header of the alphabet announces
MaxGroup == 2
\* subprocesses left behind, still running, by GitBlame calls that returned
MaxLeaked == 2

\* ------------------------------------------------------- tokens and lines
TAB == "\t"
IdA == "aaaaaaaaaaaaaaaaaaaaaaaaaaaaaaaaaaaaaaaa"
IdB == "bbbbbbbbbbbbbbbbbbbbbbbbbbbbbbbbbbbbbbbb"
IdC == "cccccccccccccccccccccccccccccccccccccccc"
IdD == "dddddddddddddddddddddddddddddddddddddddd"
NotCommittedId == "0000000000000000000000000000000000000000"
\* the 40-hex tokens of the model
CommitIds == {IdA, IdB, IdC, IdD, NotCommittedId}

AuthorKey == "author"
AuthorMailKey == "author-mail"
AuthorTimeKey == "author-time"
PreviousKey == "previous"
SummaryKey == "summary"
FilenameKey == "filename"

\* decimal numerals; Decimal[n+1] is the numeral of n
Decimal == <<"0", "1", "2", "3", "4", "5", "6">>
\* a numeral too large for int
BigNumeral == "99999999999999999999"
\* the value strconv gives with a range error: the largest int (the largest
\* the checker's integers hold stands for it)
MaxInt == 2147483647

\* \d+
IsDigits(tok) == tok = BigNumeral \/ \E i \in 1..Len(Decimal) : Decimal[i] = tok
\* [0-9a-f]{40}
IsHex40(tok) == tok \in CommitIds

\* strconv.Atoi / strconv.ParseInt(_, 10, 64): value and whether it failed
Atoi(tok) ==
  IF \E i \in 1..Len(Decimal) : Decimal[i] = tok
  THEN [val |-> (CHOOSE i \in 1..Len(Decimal) : Decimal[i] = tok) - 1, failed |-> FALSE]
  ELSE IF tok = BigNumeral
       THEN [val |-> MaxInt, failed |-> TRUE]
       ELSE [val |-> 0, failed |-> TRUE]

\* \A([0-9a-f]{40})\s(\d+)\s(\d+)\s(\d+)\z
BlameChunkHeader(line) ==
  /\ Len(line) = 4
  /\ IsHex40(line[1])
  /\ IsDigits(line[2]) /\ IsDigits(line[3]) /\ IsDigits(line[4])

\* \A[0-9a-f]{40}\s\d+\s(\d+)\z
LineInChunkHeader(line) ==
  /\ Len(line) = 3
  /\ IsHex40(line[1])
  /\ IsDigits(line[2]) /\ IsDigits(line[3])

\* strings.HasPrefix(line, "\t")
HasTabPrefix(line) == Len(line) >= 1 /\ line[1] = TAB

\* strings.Replace(line, "\t", "", 1) of a content line
StripTab(line) == Tail(line)

\* FindInterestingValue: the line starts with name followed by a space
FindInterestingValue(name, line) ==
  IF Len(line) >= 2 /\ line[1] = name
  THEN [ok |-> TRUE, val |-> Tail(line)]
  ELSE [ok |-> FALSE, val |-> <<>>]

\* number of characters of a value: 40 for an id, 1 for any other token,
\* plus the separating spaces
RECURSIVE CharLen(_)
CharLen(val) ==
  IF val = <<>> THEN 0
  ELSE (IF IsHex40(Head(val)) THEN 40 ELSE 1)
       + (IF Len(val) > 1 THEN 1 ELSE 0) + CharLen(Tail(val))

\* ------------------------------------------------------------ parser state
NilErr == [kind |-> "nil", line |-> <<>>]
MkErr(kind, line) == [kind |-> kind, line |-> line]

\* &BlameChunk{} with CommitId set
NewChunk(id) ==
  [CommitId |-> id, PreviousCommitId |-> "", Author |-> <<>>, AuthorMail |-> <<>>,
   AuthorTime |-> 0, Summary |-> <<>>, Filename |-> <<>>, PreviousFilename |-> <<>>]

\* the locals of GitBlame at the top of the scan loop
\* ctl: "loop" scanning, "break" left the loop with err set,
\*      "return" returned (nil, err) from inside the loop, "panic" run-time panic
ParserInit ==
  [lineToChunkMap |-> <<>>, idToChunkMap |-> <<>>, heap |-> <<>>,
   linesInChunk |-> 0, lineNumber |-> 0, chunkPopulated |-> FALSE,
   lines |-> <<>>, chunk |-> 0, err |-> NilErr, ctl |-> "loop"]

\* faulty variant: where a group begins, a header without size is taken for
\* a one-line group of a commit already seen
ScanGroupHeaderOptionalSize(ps, line) ==
  IF LineInChunkHeader(line) /\ line[1] \in DOMAIN ps.idToChunkMap
  THEN [ps EXCEPT !.chunkPopulated = TRUE, !.chunk = ps.idToChunkMap[line[1]],
                  !.lineNumber = Atoi(line[3]).val - 1, !.linesInChunk = 1]
  ELSE IF ~BlameChunkHeader(line)
  THEN [ps EXCEPT !.err = MkErr("format", line), !.ctl = "break"]
  ELSE
    LET id == line[1]
        seen == id \in DOMAIN ps.idToChunkMap
        heap2 == IF seen THEN ps.heap ELSE Append(ps.heap, NewChunk(id))
        ptr == IF seen THEN ps.idToChunkMap[id] ELSE Len(heap2)
        ids2 == IF seen THEN ps.idToChunkMap ELSE (id :> ptr) @@ ps.idToChunkMap
        final == Atoi(line[3])
        size == Atoi(line[4])
        opened == [ps EXCEPT !.chunkPopulated = seen, !.chunk = ptr,
                             !.heap = heap2, !.idToChunkMap = ids2]
    IN IF size.failed
       THEN [opened EXCEPT !.lineNumber = final.val, !.linesInChunk = size.val,
                           !.err = MkErr("range", line), !.ctl = "return"]
       ELSE [opened EXCEPT !.lineNumber = final.val - 1, !.linesInChunk = size.val]

\* faulty variant: a Chunk is allocated for every group, seen before or not
ScanGroupHeaderFresh(ps, line) ==
  IF ~BlameChunkHeader(line)
  THEN [ps EXCEPT !.err = MkErr("format", line), !.ctl = "break"]
  ELSE
    LET heap2 == Append(ps.heap, NewChunk(line[1]))
        final == Atoi(line[3])
        size == Atoi(line[4])
        opened == [ps EXCEPT !.chunkPopulated = FALSE, !.chunk = Len(heap2),
                             !.heap = heap2,
                             !.idToChunkMap = (line[1] :> Len(heap2)) @@ ps.idToChunkMap]
    IN IF size.failed
       THEN [opened EXCEPT !.lineNumber = final.val, !.linesInChunk = size.val,
                           !.err = MkErr("range", line), !.ctl = "return"]
       ELSE [opened EXCEPT !.lineNumber = final.val - 1, !.linesInChunk = size.val]

\* the branch of the loop body taken when linesInChunk = 0
ScanGroupHeader(ps, line) ==
  IF ~BlameChunkHeader(line)
  THEN [ps EXCEPT !.err = MkErr("format", line), !.ctl = "break"]
  ELSE
    LET id == line[1]
        seen == id \in DOMAIN ps.idToChunkMap
        heap2 == IF seen THEN ps.heap ELSE Append(ps.heap, NewChunk(id))
        ptr == IF seen THEN ps.idToChunkMap[id] ELSE Len(heap2)
        ids2 == IF seen THEN ps.idToChunkMap ELSE (id :> ptr) @@ ps.idToChunkMap
        final == Atoi(line[3])
        size == Atoi(line[4])
        opened == [ps EXCEPT !.chunkPopulated = seen, !.chunk = ptr,
                             !.heap = heap2, !.idToChunkMap = ids2]
    IN IF size.failed
       THEN [opened EXCEPT !.lineNumber = final.val, !.linesInChunk = size.val,
                           !.err = MkErr("range", line), !.ctl = "return"]
       ELSE [opened EXCEPT !.lineNumber = final.val - 1, !.linesInChunk = size.val]

\* faulty variant: the final line number is not converted to zero-based
ScanLineHeaderOneBased(ps, line) ==
  LET final == Atoi(line[3])
  IN IF final.failed
     THEN [ps EXCEPT !.lineNumber = final.val, !.err = MkErr("range", line),
                     !.ctl = "return"]
     ELSE [ps EXCEPT !.lineNumber = final.val]

\* faulty variant: a header of a later line uses up one of the group's lines
ScanLineHeaderConsumes(ps, line) ==
  LET final == Atoi(line[3])
  IN IF final.failed
     THEN [ps EXCEPT !.lineNumber = final.val, !.err = MkErr("range", line),
                     !.ctl = "return"]
     ELSE [ps EXCEPT !.lineNumber = final.val - 1,
                     !.linesInChunk = ps.linesInChunk - 1]

\* the branch taken for a header of a later line of the group
ScanLineHeader(ps, line) ==
  LET final == Atoi(line[3])
  IN IF final.failed
     THEN [ps EXCEPT !.lineNumber = final.val, !.err = MkErr("range", line),
                     !.ctl = "return"]
     ELSE [ps EXCEPT !.lineNumber = final.val - 1]

\* the branch taken for a content line
ScanContent(ps, line) ==
  [ps EXCEPT !.linesInChunk = ps.linesInChunk - 1,
             !.lineToChunkMap = (ps.lineNumber :> ps.chunk) @@ ps.lineToChunkMap,
             !.lines = Append(ps.lines, StripTab(line))]

\* faulty variant: an author-time that is no integer is skipped
ScanMetadataLenientTime(ps, line) ==
  LET c == ps.chunk
      author == FindInterestingValue(AuthorKey, line)
      mail == FindInterestingValue(AuthorMailKey, line)
      prev == FindInterestingValue(PreviousKey, line)
      summary == FindInterestingValue(SummaryKey, line)
      fname == FindInterestingValue(FilenameKey, line)
      atime == FindInterestingValue(AuthorTimeKey, line)
  IN IF author.ok THEN [ps EXCEPT !.heap[c].Author = author.val]
     ELSE IF mail.ok THEN [ps EXCEPT !.heap[c].AuthorMail = mail.val]
     ELSE IF prev.ok THEN
       IF CharLen(prev.val) < 41 THEN [ps EXCEPT !.ctl = "panic"]
       ELSE [ps EXCEPT !.heap[c].PreviousCommitId = prev.val[1],
                       !.heap[c].PreviousFilename = Tail(prev.val)]
     ELSE IF summary.ok THEN [ps EXCEPT !.heap[c].Summary = summary.val]
     ELSE IF fname.ok THEN [ps EXCEPT !.heap[c].Filename = fname.val]
     ELSE IF atime.ok THEN
       LET ts == Atoi(atime.val[1])
       IN IF Len(atime.val) # 1 \/ ts.failed THEN ps
          ELSE [ps EXCEPT !.heap[c].AuthorTime = ts.val]
     ELSE ps

\* the branch taken for any other line while the chunk is not populated
ScanMetadata(ps, line) ==
  LET c == ps.chunk
      author == FindInterestingValue(AuthorKey, line)
      mail == FindInterestingValue(AuthorMailKey, line)
      prev == FindInterestingValue(PreviousKey, line)
      summary == FindInterestingValue(SummaryKey, line)
      fname == FindInterestingValue(FilenameKey, line)
      atime == FindInterestingValue(AuthorTimeKey, line)
  IN IF author.ok THEN [ps EXCEPT !.heap[c].Author = author.val]
     ELSE IF mail.ok THEN [ps EXCEPT !.heap[c].AuthorMail = mail.val]
     ELSE IF prev.ok THEN
       \* val[:40] and val[41:]: out of range on a value shorter than 41
       \* characters; otherwise the id token and what follows the separator
       IF CharLen(prev.val) < 41 THEN [ps EXCEPT !.ctl = "panic"]
       ELSE [ps EXCEPT !.heap[c].PreviousCommitId = prev.val[1],
                       !.heap[c].PreviousFilename = Tail(prev.val)]
     ELSE IF summary.ok THEN [ps EXCEPT !.heap[c].Summary = summary.val]
     ELSE IF fname.ok THEN [ps EXCEPT !.heap[c].Filename = fname.val]
     ELSE IF atime.ok THEN
       LET ts == Atoi(atime.val[1])
       IN IF Len(atime.val) # 1 \/ ts.failed
          THEN [ps EXCEPT !.err = MkErr("syntax", line), !.ctl = "return"]
          ELSE [ps EXCEPT !.heap[c].AuthorTime = ts.val]
     ELSE ps

\* faulty variant: metadata is applied whether or not the chunk is populated
ScanLineAlwaysMeta(ps, line) ==
  IF ps.linesInChunk = 0 THEN ScanGroupHeader(ps, line)
  ELSE IF LineInChunkHeader(line) THEN ScanLineHeader(ps, line)
  ELSE IF HasTabPrefix(line) THEN ScanContent(ps, line)
  ELSE ScanMetadata(ps, line)

\* faulty variant: in a group of a commit seen before, any other line is
\* counted as one of the group's lines
ScanLinePopulatedCounts(ps, line) ==
  IF ps.linesInChunk = 0 THEN ScanGroupHeader(ps, line)
  ELSE IF LineInChunkHeader(line) THEN ScanLineHeader(ps, line)
  ELSE IF HasTabPrefix(line) THEN ScanContent(ps, line)
  ELSE IF ~ps.chunkPopulated THEN ScanMetadata(ps, line)
  ELSE [ps EXCEPT !.linesInChunk = ps.linesInChunk - 1]

\* one iteration of the scan loop on the line read
ScanLine(ps, line) ==
  IF ps.linesInChunk = 0 THEN ScanGroupHeader(ps, line)
  ELSE IF LineInChunkHeader(line) THEN ScanLineHeader(ps, line)
  ELSE IF HasTabPrefix(line) THEN ScanContent(ps, line)
  ELSE IF ~ps.chunkPopulated THEN ScanMetadata(ps, line)
  ELSE ps

\* the loop run over a whole stream
RECURSIVE ScanAll(_, _)
ScanAll(ps, stream) ==
  IF stream = <<>> \/ ps.ctl # "loop" THEN ps
  ELSE ScanAll(ScanLine(ps, Head(stream)), Tail(stream))

\* (*Blame)(nil)
NilBlame == [nil |-> TRUE, Lines |-> <<>>, LineToChunkMap |-> <<>>, Chunks |-> <<>>]

\* &Blame{Lines: lines, LineToChunkMap: lineToChunkMap}, with the chunks it points to
MkBlame(ps) ==
  [nil |-> FALSE, Lines |-> ps.lines, LineToChunkMap |-> ps.lineToChunkMap,
   Chunks |-> ps.heap]

\* faulty variant: the lines parsed before an error are returned with it
AfterLoopPartial(ps, readErr) ==
  IF ps.ctl = "panic" THEN [b |-> NilBlame, err |-> NilErr, panicked |-> TRUE]
  ELSE IF ps.err # NilErr THEN [b |-> MkBlame(ps), err |-> ps.err, panicked |-> FALSE]
  ELSE IF readErr THEN [b |-> NilBlame, err |-> MkErr("read", <<>>), panicked |-> FALSE]
  ELSE [b |-> MkBlame(ps), err |-> NilErr, panicked |-> FALSE]

\* what GitBlame's return statement assigns to (b, err) once the loop is
\* left; readErr: scanner.Err() is not nil
AfterLoop(ps, readErr) ==
  IF ps.ctl = "panic" THEN [b |-> NilBlame, err |-> NilErr, panicked |-> TRUE]
  ELSE IF ps.err # NilErr THEN [b |-> NilBlame, err |-> ps.err, panicked |-> FALSE]
  ELSE IF readErr THEN [b |-> NilBlame, err |-> MkErr("read", <<>>), panicked |-> FALSE]
  ELSE [b |-> MkBlame(ps), err |-> NilErr, panicked |-> FALSE]

\* the deferred function: cmd.Wait() only when err is nil; exitOk: the
\* subprocess exited with status 0.  waited: cmd.Wait() was called
Deferred(ret, exitOk) ==
  IF ret.panicked THEN [b |-> ret.b, err |-> ret.err, panicked |-> TRUE, waited |-> TRUE]
  ELSE IF ret.err # NilErr
  THEN [b |-> ret.b, err |-> ret.err, panicked |-> FALSE, waited |-> FALSE]
  ELSE IF exitOk
  THEN [b |-> ret.b, err |-> NilErr, panicked |-> FALSE, waited |-> TRUE]
  ELSE [b |-> ret.b, err |-> MkErr("exit", <<>>), panicked |-> FALSE, waited |-> TRUE]

\* GitBlame on a subprocess that starts, writes stream and exits
GitBlameOn(stream, readErr, exitOk) ==
  Deferred(AfterLoop(ScanAll(ParserInit, stream), readErr), exitOk)

\* ------------------------------------------------- the porcelain grammar
\* What `git blame --porcelain` writes: groups in final-line order; a group
\* is a header announcing n >= 1 lines, the commit's details, then n content
\* lines, each but the first preceded by its own three-field header.
\* WfStep follows a stream through that grammar.
WfInit == [ok |-> TRUE, phase |-> "group", id |-> "", next |-> 1, rem |-> 0]

WfContent(w) ==
  [w EXCEPT !.rem = w.rem - 1, !.next = w.next + 1,
            !.phase = IF w.rem = 1 THEN "group" ELSE "line"]

WfStep(w, line) ==
  LET bad == [w EXCEPT !.ok = FALSE]
  IN IF ~w.ok THEN w
     ELSE IF w.phase = "group" THEN
       IF /\ BlameChunkHeader(line)
          /\ ~Atoi(line[3]).failed /\ ~Atoi(line[4]).failed
          /\ Atoi(line[3]).val = w.next /\ Atoi(line[4]).val >= 1
       THEN [w EXCEPT !.phase = "details", !.id = line[1], !.rem = Atoi(line[4]).val]
       ELSE bad
     ELSE IF w.phase = "details" THEN
       IF HasTabPrefix(line) THEN WfContent(w)
       ELSE IF BlameChunkHeader(line) \/ LineInChunkHeader(line) THEN bad
       ELSE w
     ELSE IF w.phase = "line" THEN
       IF LineInChunkHeader(line) /\ line[1] = w.id /\ ~Atoi(line[3]).failed
          /\ Atoi(line[3]).val = w.next
       THEN [w EXCEPT !.phase = "text"]
       ELSE bad
     ELSE IF HasTabPrefix(line) THEN WfContent(w) ELSE bad

\* the stream followed so far is a complete well-formed output
WfComplete(w) == w.ok /\ w.phase = "group"

\* the size a line announces when the parser takes it as a group header
AnnouncedSize(ps, line) ==
  IF ps.linesInChunk = 0 /\ BlameChunkHeader(line) /\ ~Atoi(line[4]).failed
  THEN Atoi(line[4]).val ELSE 0

\* ------------------------------------------------- the lines of the model
StreamIds == {IdA, IdB}
GroupHeaders ==
  {<<id, "1", Decimal[f + 1], Decimal[n + 1]>> :
      id \in StreamIds, f \in 1..MaxLineNo, n \in 0..MaxGroup}
  \cup {<<IdA, "1", "1", BigNumeral>>}
LineHeaders == {<<id, "1", Decimal[f + 1]>> : id \in StreamIds, f \in 1..MaxLineNo}
ContentLines == {<<TAB, "x">>, <<TAB, "y">>}
MetaLines ==
  {<<AuthorKey, "Ann">>, <<AuthorTimeKey, "1">>, <<AuthorTimeKey, "soon">>,
   <<FilenameKey, "f">>, <<PreviousKey, IdA, "f">>, <<PreviousKey, "dead">>,
   <<"boundary">>}
LineAlphabet == GroupHeaders \cup LineHeaders \cup ContentLines \cup MetaLines

\* ------------------------------------------- the repositories of the model
\* What the subprocess `git -C <repo> blame --porcelain <filename> [<commitId>]`
\* writes for four small read-only histories.  "" is the working tree, equal
\* to the last commit.
\*   linear:    A adds f = x;  B appends y, z;  C changes line 2
\*   renamed:   A adds f = x, y;  B changes both lines;  C renames f to g
\*   recreated: as renamed, then D adds a new one-line file f
\*   emptied:   A adds an empty f;  B adds line x
\*   wide:      A adds f = ab, c, ba, a, B;  B changes line 2 to cb
\*   dirty:     A adds f = x;  the working tree appends u, not committed
H4(id, final, n) == <<id, Decimal[final + 1], Decimal[final + 1], Decimal[n + 1]>>
H3(id, final) == <<id, Decimal[final + 1], Decimal[final + 1]>>
Txt(t) == <<TAB, t>>
Details(author, file) ==
  <<<<AuthorKey, author>>, <<AuthorTimeKey, "1">>, <<SummaryKey, "edit">>,
    <<FilenameKey, file>>>>
DetailsPrev(author, id, pfile, file) ==
  <<<<AuthorKey, author>>, <<AuthorTimeKey, "1">>, <<SummaryKey, "edit">>,
    <<PreviousKey, id, pfile>>, <<FilenameKey, file>>>>

LinearA == <<H4(IdA, 1, 1)>> \o Details("Ann", "f") \o <<Txt("x")>>
LinearB ==
  LinearA \o <<H4(IdB, 2, 2)>> \o DetailsPrev("Bob", IdA, "f", "f")
          \o <<Txt("y"), H3(IdB, 3), Txt("z")>>
LinearC ==
  LinearA \o <<H4(IdC, 2, 1)>> \o DetailsPrev("Cy", IdB, "f", "f") \o <<Txt("y2")>>
          \o <<H4(IdB, 3, 1)>> \o DetailsPrev("Bob", IdA, "f", "f") \o <<Txt("z")>>
RenamedA ==
  <<H4(IdA, 1, 2)>> \o Details("Ann", "f") \o <<Txt("x"), H3(IdA, 2), Txt("y")>>
RenamedB ==
  <<H4(IdB, 1, 2)>> \o DetailsPrev("Bob", IdA, "f", "f")
          \o <<Txt("x2"), H3(IdB, 2), Txt("y2")>>
RecreatedF == <<H4(IdD, 1, 1)>> \o Details("Dee", "f") \o <<Txt("w")>>
EmptiedB == <<H4(IdB, 1, 1)>> \o DetailsPrev("Bob", IdA, "f", "f") \o <<Txt("x")>>
DirtyW ==
  LinearA \o <<H4(NotCommittedId, 2, 1)>> \o DetailsPrev("You", IdA, "f", "f")
          \o <<Txt("u")>>

\* What the subprocess writes for a file whose three lines were added by
\* commit A and whose line 2 was then changed by commit B: three one-line
\* groups, the details of A in its first group only (its filename line may
\* be written again).
ExampleStream(t1, t2, t3, author, again) ==
  <<H4(IdA, 1, 1)>> \o Details(author, "f") \o <<Txt(t1)>>
    \o <<H4(IdB, 2, 1)>> \o DetailsPrev("Bob", IdA, "f", "f") \o <<Txt(t2)>>
    \o <<H4(IdA, 3, 1)>> \o (IF again THEN <<<<FilenameKey, "f">>>> ELSE <<>>)
    \o <<Txt(t3)>>
ExampleStreams ==
  {ExampleStream(t1, t2, t3, author, again) :
     t1 \in {"x", "y"}, t2 \in {"x", "y"}, t3 \in {"x", "y"},
     author \in {"Ann", "Cy"}, again \in BOOLEAN}

\* a content line of several characters
TxtOf(chars) == <<TAB>> \o chars
WideA ==
  <<H4(IdA, 1, 5)>> \o Details("Ann", "f")
    \o <<TxtOf(<<"a", "b">>), H3(IdA, 2), TxtOf(<<"c">>), H3(IdA, 3),
         TxtOf(<<"b", "a">>), H3(IdA, 4), TxtOf(<<"a">>), H3(IdA, 5), TxtOf(<<"B">>)>>
WideB ==
  <<H4(IdA, 1, 1)>> \o Details("Ann", "f") \o <<TxtOf(<<"a", "b">>)>>
    \o <<H4(IdB, 2, 1)>> \o DetailsPrev("Bob", IdA, "f", "f") \o <<TxtOf(<<"c", "b">>)>>
    \o <<H4(IdA, 3, 3), TxtOf(<<"b", "a">>), H3(IdA, 4), TxtOf(<<"a">>),
         H3(IdA, 5), TxtOf(<<"B">>)>>

Worlds == {"linear", "renamed", "recreated", "emptied", "wide"}

\* the path given on the command line, made absolute by getFilepath
FilenameArg(w) == IF w \in {"renamed", "recreated"} THEN <<"/repo/g">> ELSE <<"/repo/f">>

\* git resolves a path inside the repository to its repository-relative name
RepoRelative(filename) ==
  IF filename = <<"/repo/f">> THEN <<"f">>
  ELSE IF filename = <<"/repo/g">> THEN <<"g">>
  ELSE filename

\* standard output and exit status of the blame subprocess
GitOutput(w, commitId, filename) ==
  LET f == RepoRelative(filename)
      yes(stream) == [stream |-> stream, exitOk |-> TRUE]
      no == [stream |-> <<>>, exitOk |-> FALSE]
  IN IF w = "linear" THEN
       IF f # <<"f">> THEN no
       ELSE IF commitId \in {"", IdC} THEN yes(LinearC)
       ELSE IF commitId = IdB THEN yes(LinearB)
       ELSE IF commitId = IdA THEN yes(LinearA)
       ELSE no
     ELSE IF w \in {"renamed", "recreated"} THEN
       IF f = <<"g">> /\ commitId \in {"", IdC, IdD} /\ (commitId = IdD => w = "recreated")
       THEN yes(RenamedB)
       ELSE IF f = <<"f">> /\ commitId = IdB THEN yes(RenamedB)
       ELSE IF f = <<"f">> /\ commitId = IdA THEN yes(RenamedA)
       ELSE IF f = <<"f">> /\ commitId \in {"", IdD} /\ w = "recreated" THEN yes(RecreatedF)
       ELSE no
     ELSE IF w = "wide" THEN
       IF f # <<"f">> THEN no
       ELSE IF commitId \in {"", IdB} THEN yes(WideB)
       ELSE IF commitId = IdA THEN yes(WideA)
       ELSE no
     ELSE IF w = "dirty" THEN
       IF f # <<"f">> THEN no
       ELSE IF commitId = "" THEN yes(DirtyW)
       ELSE IF commitId = IdA THEN yes(LinearA)
       ELSE no
     ELSE
       IF f # <<"f">> THEN no
       ELSE IF commitId \in {"", IdB} THEN yes(EmptiedB)
       ELSE IF commitId = IdA THEN yes(<<>>)
       ELSE no

\* how a subprocess run can go besides well: it does not start, its pipe
\* fails while read, or it exits non-zero after writing its output
Envs == {"ok", "nostart", "readerr", "exitfail"}

\* GitBlame(gitArgs, commitId, filename) in repository w
GitBlame(w, commitId, filename, env) ==
  IF env = "nostart"
  THEN [b |-> NilBlame, err |-> MkErr("start", <<>>), panicked |-> FALSE,
        waited |-> FALSE]
  ELSE LET o == GitOutput(w, commitId, filename)
       IN GitBlameOn(o.stream, env = "readerr", o.exitOk /\ env # "exitfail")

\* --------------------------------------------------- the remote address
\* An address is a sequence of pieces: "git@", "https://", a host name, ":",
\* "/", a path segment, ".git".
\* faulty variant: the .git suffix is kept
StripGitSuffixNever(address) == address

\* strings.HasSuffix(raw, ".git"): raw[:len(raw)-4]
StripGitSuffix(address) ==
  IF address # <<>> /\ address[Len(address)] = ".git"
  THEN SubSeq(address, 1, Len(address) - 1) ELSE address

\* strings.Trim(s, "/")
RECURSIVE TrimSlashes(_)
TrimSlashes(text) ==
  IF text # <<>> /\ Head(text) = "/" THEN TrimSlashes(Tail(text))
  ELSE IF text # <<>> /\ text[Len(text)] = "/"
  THEN TrimSlashes(SubSeq(text, 1, Len(text) - 1))
  ELSE text

\* the index of the first piece equal to sep, 0 when there is none
IndexOf(text, sep) ==
  IF \E k \in 1..Len(text) : text[k] = sep
  THEN CHOOSE k \in 1..Len(text) : text[k] = sep /\ \A j \in 1..(k - 1) : text[j] # sep
  ELSE 0

\* url.Parse: [err, Host, Path].  A scheme is what precedes the first ":";
\* "//" after it opens the authority, which ends at the next "/"; a port
\* must be digits; without "//" a URL with a scheme is opaque
UrlParse(address) ==
  LET fail == [err |-> TRUE, Host |-> <<>>, Path |-> <<>>]
      ok(h, p) == [err |-> FALSE, Host |-> h, Path |-> p]
      authority(rest) ==
        LET slash == IndexOf(rest, "/")
            auth == IF slash = 0 THEN rest ELSE SubSeq(rest, 1, slash - 1)
            path == IF slash = 0 THEN <<>> ELSE SubSeq(rest, slash, Len(rest))
            colon == IndexOf(auth, ":")
        IN IF colon # 0 /\ colon < Len(auth) THEN fail  \* invalid port
           ELSE ok(auth, path)
      colon == IndexOf(address, ":")
      slash == IndexOf(address, "/")
      schemeEnds == colon # 0 /\ (slash = 0 \/ colon < slash)
  IN IF address # <<>> /\ Head(address) = "https://" THEN authority(Tail(address))
     ELSE IF colon = 1 THEN fail                       \* missing protocol scheme
     ELSE IF schemeEnds
     THEN IF colon < Len(address) /\ address[colon + 1] = "/"
          THEN ok(<<>>, SubSeq(address, colon + 1, Len(address)))
          ELSE ok(<<>>, <<>>)                          \* opaque
     ELSE ok(<<>>, address)

NoRemote == [nil |-> TRUE, Host |-> <<>>, Repo |-> <<>>, err |-> FALSE, panicked |-> FALSE]

\* parseRemoteUrl(raw)
parseRemoteUrl(address) ==
  LET stripped == StripGitSuffix(address)
      rest == Tail(stripped)                    \* strings.Replace(raw, "git@", "", 1)
      colon == IndexOf(rest, ":")
      u == UrlParse(stripped)
      info(host, repo) ==
        [nil |-> FALSE, Host |-> TrimSlashes(host), Repo |-> TrimSlashes(repo),
         err |-> FALSE, panicked |-> FALSE]
  IN IF stripped # <<>> /\ Head(stripped) = "git@"
     THEN IF colon = 0
          THEN [NoRemote EXCEPT !.panicked = TRUE]  \* hostAndRepoSlice[1] out of range
          ELSE info(SubSeq(rest, 1, colon - 1), SubSeq(rest, colon + 1, Len(rest)))
     ELSE IF u.err THEN [NoRemote EXCEPT !.err = TRUE]
     ELSE info(u.Host, u.Path)

\* faulty variant: every host is taken for a GitHub host
SupportedAny(ri) == TRUE

\* ri.Host == "github.com"
Supported(ri) == ri.Host = <<"github.com">>

NoLink == [url |-> <<>>, err |-> <<>>]
UnsupportedRemote(ri) == [url |-> <<>>, err |-> <<"Cannot construct link for remote">> \o ri.Host]

\* buildLineLink(ri, id, path, lineNumber)
buildLineLink(ri, id, path, lineNumber) ==
  IF Supported(ri)
  THEN [url |-> <<"https://github.com/">> \o ri.Repo \o <<"/blob/", id, "/">> \o path
                  \o <<"#L", Decimal[lineNumber + 1]>>,
        err |-> <<>>]
  ELSE UnsupportedRemote(ri)

\* buildCommitLink(ri, id)
buildCommitLink(ri, id) ==
  IF Supported(ri)
  THEN [url |-> <<"https://github.com/">> \o ri.Repo \o <<"/commit/", id>>, err |-> <<>>]
  ELSE UnsupportedRemote(ri)

\* the addresses of the model
SshExample == <<"git@", "github.com", ":", "owner", "/", "repo", ".git">>
HttpsExample == <<"https://", "github.com", "/", "owner", "/", "repo">>
RemoteInputs ==
  {pre \o host \o sep \o path \o suffix :
     pre \in {<<>>, <<"git@">>, <<"https://">>},
     host \in {<<>>, <<"github.com">>, <<"gitlab.com">>},
     sep \in {<<>>, <<":">>, <<"/">>},
     path \in {<<>>, <<"repo">>, <<"owner", "/", "repo">>, <<"owner", "/", "repo", "/">>},
     suffix \in {<<>>, <<".git">>}}

\* ------------------------------------------------------------------ state
VARIABLES
  \* one GitBlame call, line by line
  ps,       \* GitBlame's locals
  pc,       \* where the GitBlame call is: "init", "scan", "exit", "done"
  scanErr,  \* scanner.Err() is not nil
  out,      \* what the call returned
  proc,     \* the subprocess: "none", "running", "waited", "leaked"
  nread,    \* number of lines read
  line,     \* scanner.Text(): the line read last
  input,    \* what the subprocess has still to write, when it is fixed
  sizeSum,  \* sum of the sizes announced by the group headers read
  wf,       \* the stream read so far, followed through the grammar
  \* the interactive session
  world,            \* the repository the session runs in
  session,          \* "starting", "running", "stopped", "crashed"
  CurrentCommitId,  \* Application.CurrentCommitId
  CursorPosition,   \* Application.CursorPosition
  CurrentBlame,     \* Application.CurrentBlame
  History,          \* Application.History
  SearchTerm,       \* Application.SearchTerm
  status,           \* text and colour of the bottom bar
  scan,             \* the line indexes the last performSearch looked at, in order
  run,              \* the rows selected by the presses of n (or of N) in a row
  event,            \* the handler that ran last, its outcome, the state before it
  prev,             \* the event before that
  depth,            \* successful presses of h so far less those of l
  \* a remote address turned into links
  raw,      \* what `git ls-remote --get-url` printed, trimmed
  remote,   \* what parseRemoteUrl returned for it
  link,     \* what buildLineLink or buildCommitLink returned
  lpc,      \* "raw", "parsed", "failed", "crashed", "linked"
  \* the program's goroutines and subprocesses
  main,     \* the main goroutine: "load", "prerun", "idle", "inblame", "exited"
  caller,   \* the GitBlame call it is in: "load", "h", "l", or "none"
  screen,   \* tApp has a screen: tApp.Run() has set it up, no Stop() since
  halted,   \* tApp.Stop() has finalized the screen: the event loop ends
  ctx,      \* gitArgs.Context: "live" or "cancelled"
  sig,      \* the signal goroutine: "waiting", "stop", "cancel", "done"
  cur,      \* the subprocess of the call in progress: "none", "running", "exited"
  leaked    \* subprocesses of earlier calls that are still running

parseVars == <<ps, pc, scanErr, out, proc, nread, line, input, sizeSum, wf>>
navVars == <<world, session, CurrentCommitId, CursorPosition, CurrentBlame, History,
             SearchTerm, status, scan, run, event, prev, depth>>
linkVars == <<raw, remote, link, lpc>>
runVars == <<main, caller, screen, halted, ctx, sig, cur, leaked>>
vars == <<parseVars, navVars, linkVars, runVars>>

NoReturn == [b |-> NilBlame, err |-> NilErr, panicked |-> FALSE, waited |-> FALSE]

\* the bottom bar: setMessage / setErrorMessage
Msg(kind, arg) == [error |-> FALSE, kind |-> kind, arg |-> arg]
ErrMsg(kind, arg) == [error |-> TRUE, kind |-> kind, arg |-> arg]

\* the navigator state
Nav ==
  [CurrentCommitId |-> CurrentCommitId, CursorPosition |-> CursorPosition,
   History |-> History, CurrentBlame |-> CurrentBlame]

\* a handler's record: the key, how it ended ("ok", "rejected", "failed",
\* "panic"), the (commitId, filename) GitBlame was called with, how that
\* subprocess run went, and the navigator state before the handler
NoCall == <<>>
Ev(op, outcome, call, env) ==
  [op |-> op, outcome |-> outcome, call |-> call, env |-> env, pre |-> Nav]

\* no press of n or N has happened since the last other key
NoRun == [op |-> "none", seq |-> <<>>]

\* run() before TViewInit is called
RunIdle ==
  /\ main = "load" /\ caller = "none" /\ screen = FALSE /\ halted = FALSE
  /\ ctx = "live" /\ sig = "waiting" /\ cur = "none" /\ leaked = 0

\* no remote address has been read
LinkIdle == raw = <<>> /\ remote = NoRemote /\ link = NoLink /\ lpc = "raw"

\* run(): the Application value handed to TViewInit
AppInit ==
  /\ session = "starting"
  /\ SearchTerm = <<>>
  /\ scan = <<>>
  /\ run = NoRun
  /\ CurrentCommitId = ""
  /\ CursorPosition = 0
  /\ CurrentBlame = NilBlame
  /\ History = <<>>
  /\ status = Msg("", <<>>)
  /\ event = Ev("none", "ok", NoCall, "ok")
  /\ prev = Ev("none", "ok", NoCall, "ok")
  /\ depth = 0

ParseIdle ==
  /\ ps = ParserInit
  /\ pc = "init"
  /\ scanErr = FALSE
  /\ out = NoReturn
  /\ proc = "none"
  /\ nread = 0
  /\ line = <<>>
  /\ input = <<>>
  /\ sizeSum = 0
  /\ wf = WfInit

\* ------------------------------------------------------ one GitBlame call
ParseInit ==
  /\ ParseIdle
  /\ LinkIdle
  /\ RunIdle
  /\ world = "linear"
  /\ AppInit

\* cmd.StdoutPipe() and cmd.Start()
Start ==
  /\ pc = "init"
  /\ \E ok \in BOOLEAN :
       IF ok
       THEN /\ pc' = "scan" /\ proc' = "running" /\ out' = out
       ELSE /\ pc' = "done" /\ proc' = "none"
            /\ out' = [NoReturn EXCEPT !.err = MkErr("start", <<>>)]
  /\ UNCHANGED <<ps, scanErr, nread, line, input, sizeSum, wf, navVars, linkVars, runVars>>

\* scanner.Scan() returns a line: one iteration of the loop
ScanNext ==
  /\ pc = "scan"
  /\ nread < MaxStream
  /\ \E l \in LineAlphabet :
       /\ line' = l
       /\ ps' = ScanLine(ps, l)
       /\ sizeSum' = sizeSum + AnnouncedSize(ps, l)
       /\ wf' = WfStep(wf, l)
  /\ nread' = nread + 1
  /\ pc' = IF ps'.ctl = "loop" THEN "scan" ELSE "exit"
  /\ UNCHANGED <<scanErr, out, proc, input, navVars, linkVars, runVars>>

\* scanner.Scan() returns false: end of the stream, or a read error
ScanStop ==
  /\ pc = "scan"
  /\ \E e \in BOOLEAN : scanErr' = e
  /\ pc' = "exit"
  /\ UNCHANGED <<ps, out, proc, nread, line, input, sizeSum, wf, navVars, linkVars, runVars>>

\* the return statement and the deferred function
Finish ==
  /\ pc = "exit"
  /\ \E exitOk \in BOOLEAN :
       /\ out' = Deferred(AfterLoop(ps, scanErr), exitOk)
       /\ proc' = IF out'.waited THEN "waited" ELSE "leaked"
  /\ pc' = "done"
  /\ UNCHANGED <<ps, scanErr, nread, line, input, sizeSum, wf, navVars, linkVars, runVars>>

ParseNext == Start \/ ScanNext \/ ScanStop \/ Finish

SpecParse == ParseInit /\ [][ParseNext]_vars

\* ------------------------------- one GitBlame call on the example streams
ExampleInit ==
  /\ ps = ParserInit /\ pc = "init" /\ scanErr = FALSE /\ out = NoReturn
  /\ proc = "none" /\ nread = 0 /\ line = <<>> /\ sizeSum = 0 /\ wf = WfInit
  /\ input \in ExampleStreams
  /\ LinkIdle
  /\ RunIdle
  /\ world = "linear"
  /\ AppInit

\* scanner.Scan() returns the next line the subprocess wrote
ReadNext ==
  /\ pc = "scan"
  /\ input # <<>>
  /\ line' = Head(input)
  /\ input' = Tail(input)
  /\ ps' = ScanLine(ps, Head(input))
  /\ sizeSum' = sizeSum + AnnouncedSize(ps, Head(input))
  /\ wf' = WfStep(wf, Head(input))
  /\ nread' = nread + 1
  /\ pc' = IF ps'.ctl = "loop" THEN "scan" ELSE "exit"
  /\ UNCHANGED <<scanErr, out, proc, navVars, linkVars, runVars>>

\* scanner.Scan() returns false: the subprocess closed its output, or a
\* read error
ReadEnd ==
  /\ pc = "scan"
  /\ \E e \in BOOLEAN : scanErr' = e /\ (~e => input = <<>>)
  /\ pc' = "exit"
  /\ UNCHANGED <<ps, out, proc, nread, line, input, sizeSum, wf, navVars, linkVars, runVars>>

ExampleNext == Start \/ ReadNext \/ ReadEnd \/ Finish

SpecExample == ExampleInit /\ [][ExampleNext]_vars

\* ------------------------------------------------------------ the session
\* the selection-changed callback, which Table.Select runs with the row
\* selected: the cursor moves there and the bottom bar shows the row's chunk
SelectionChanged(blame, row, bar) ==
  IF row \notin DOMAIN blame.LineToChunkMap
  THEN [CursorPosition |-> row, status |-> bar, panicked |-> TRUE]
  ELSE LET c == blame.Chunks[blame.LineToChunkMap[row]]
       IN [CursorPosition |-> row, panicked |-> FALSE,
           status |-> IF c.CommitId # NotCommittedId
                      THEN Msg("details", c.Author)
                      ELSE Msg("(not committed)", <<>>)]

\* what a handler leaves behind
Step(nav, bar, outcome, call, env) ==
  [nav |-> nav, status |-> bar, outcome |-> outcome, call |-> call, env |-> env]

\* blame.LineToChunkMap[pos] is not nil, and the chunk it points to
HasChunk(blame, pos) == pos \in DOMAIN blame.LineToChunkMap
ChunkAt(blame, pos) == blame.Chunks[blame.LineToChunkMap[pos]]

\* faulty variant: the root check is missing
IsRootNever(c) == FALSE

\* c.PreviousCommitId == ""
IsRoot(c) == c.PreviousCommitId = ""

\* faulty variant: the item records the revision gone to, not the one left
NewHistoryItemTarget(nav, c) ==
  [CommitId |-> c.PreviousCommitId, CursorPosition |-> nav.CursorPosition,
   Filename |-> c.Filename]

\* the HistoryItem the h key pushes
NewHistoryItem(nav, c) ==
  [CommitId |-> nav.CurrentCommitId, CursorPosition |-> nav.CursorPosition,
   Filename |-> c.Filename]

\* newPos of the h key
ClampPos(pos, blame) ==
  IF Len(blame.Lines) <= pos THEN Len(blame.Lines) - 1 ELSE pos

\* faulty variant: CurrentCommitId is set before GitBlame is called
DescendFailedMoved(nav) ==
  [nav EXCEPT !.CurrentCommitId =
                ChunkAt(nav.CurrentBlame, nav.CursorPosition).PreviousCommitId]

\* the h key's state when its GitBlame call returns an error
DescendFailed(nav) == nav

\* faulty variant: CurrentCommitId is not updated
DescendApplyKeepsCommit(nav, c, blame) ==
  [nav EXCEPT !.History = Append(nav.History, NewHistoryItem(nav, c)),
              !.CurrentBlame = blame]

\* faulty variant: the item is put under the items already there
DescendApplyPushesBelow(nav, c, blame) ==
  [nav EXCEPT !.History = <<NewHistoryItem(nav, c)>> \o nav.History,
              !.CurrentCommitId = c.PreviousCommitId,
              !.CurrentBlame = blame]

\* the h key's state once its GitBlame call has returned blame, before Select
DescendApply(nav, c, blame) ==
  [nav EXCEPT !.History = Append(nav.History, NewHistoryItem(nav, c)),
              !.CurrentCommitId = c.PreviousCommitId,
              !.CurrentBlame = blame]

\* the h key handler
Descend(nav, bar, w, env) ==
  IF ~HasChunk(nav.CurrentBlame, nav.CursorPosition)
  THEN Step(nav, bar, "panic", NoCall, "ok")
  ELSE
    LET c == ChunkAt(nav.CurrentBlame, nav.CursorPosition)
        call == <<c.PreviousCommitId, c.PreviousFilename>>
        ret == GitBlame(w, c.PreviousCommitId, c.PreviousFilename, env)
        applied == DescendApply(nav, c, ret.b)
        sel == SelectionChanged(ret.b, ClampPos(nav.CursorPosition, ret.b), bar)
    IN IF IsRoot(c)
       THEN Step(nav, ErrMsg("Can't go back", <<c.CommitId>>), "rejected", NoCall, "ok")
       ELSE IF ret.panicked THEN Step(nav, bar, "panic", call, env)
       ELSE IF ret.err # NilErr
       THEN Step(DescendFailed(nav), ErrMsg("error", <<ret.err.kind>>), "failed", call, env)
       ELSE Step([applied EXCEPT !.CursorPosition = sel.CursorPosition], sel.status,
                 IF sel.panicked THEN "panic" ELSE "ok", call, env)

\* faulty variant: the empty-history check is missing
AtLatestNever(nav) == FALSE

\* historyLen == 0
AtLatest(nav) == Len(nav.History) = 0

\* faulty variant: the item is popped before GitBlame is called
ReturnFailedPopped(nav) ==
  [nav EXCEPT !.History = SubSeq(nav.History, 1, Len(nav.History) - 1)]

\* the l key's state when its GitBlame call returns an error
ReturnFailed(nav) == nav

\* faulty variant: the snapshot shown is kept instead of the one just parsed
ReturnApplyKeepsBlame(nav, commitId, blame) ==
  [nav EXCEPT !.History = SubSeq(nav.History, 1, Len(nav.History) - 1),
              !.CurrentCommitId = commitId]

\* faulty variant: CurrentCommitId is not set back to the item's revision
ReturnApplyKeepsCommit(nav, commitId, blame) ==
  [nav EXCEPT !.History = SubSeq(nav.History, 1, Len(nav.History) - 1),
              !.CurrentBlame = blame]

\* the l key's state once its GitBlame call has returned blame, before Select
ReturnApply(nav, commitId, blame) ==
  [nav EXCEPT !.History = SubSeq(nav.History, 1, Len(nav.History) - 1),
              !.CurrentCommitId = commitId,
              !.CurrentBlame = blame]

\* the l key handler
Return(nav, bar, w, env) ==
  IF AtLatest(nav)
  THEN Step(nav, ErrMsg("You are on the latest revision of this file.", <<>>),
            "rejected", NoCall, "ok")
  ELSE IF Len(nav.History) = 0
  THEN \* app.History[historyLen-1] is out of range
       Step(nav, bar, "panic", NoCall, "ok")
  ELSE
    LET historyItem == nav.History[Len(nav.History)]
        commitId == historyItem.CommitId
        filename == historyItem.Filename
        newPos == historyItem.CursorPosition
        call == <<commitId, filename>>
        ret == GitBlame(w, commitId, filename, env)
        applied == ReturnApply(nav, commitId, ret.b)
        sel == SelectionChanged(ret.b, newPos, bar)
    IN IF ret.panicked THEN Step(nav, bar, "panic", call, env)
       ELSE IF ret.err # NilErr
       THEN Step(ReturnFailed(nav), ErrMsg("error", <<ret.err.kind>>), "failed", call, env)
       ELSE Step([applied EXCEPT !.CursorPosition = sel.CursorPosition], sel.status,
                 IF sel.panicked THEN "panic" ELSE "ok", call, env)

\* TViewInit's first GitBlame, RenderBlameView and Select(0, 0)
FirstLoad(nav, bar, w, env) ==
  LET file == FilenameArg(w)
      ret == GitBlame(w, "", file, env)
      sel == SelectionChanged(ret.b, 0, bar)
  IN IF ret.panicked THEN Step(nav, bar, "panic", <<"", file>>, env)
     ELSE IF ret.err # NilErr THEN Step(nav, bar, "failed", <<"", file>>, env)
     ELSE Step([nav EXCEPT !.CurrentBlame = ret.b,
                           !.CursorPosition = sel.CursorPosition],
               sel.status, IF sel.panicked THEN "panic" ELSE "ok", <<"", file>>, env)

\* strings.Contains(line, term), on strings as sequences of characters
Contains(text, term) ==
  \E k \in 0..(Len(text) - Len(term)) : SubSeq(text, k + 1, k + Len(term)) = term

\* strings.TrimSpace
RECURSIVE TrimLeft(_)
TrimLeft(text) ==
  IF text # <<>> /\ Head(text) = " " THEN TrimLeft(Tail(text)) ELSE text
RECURSIVE TrimRight(_)
TrimRight(text) ==
  IF text # <<>> /\ text[Len(text)] = " "
  THEN TrimRight(SubSeq(text, 1, Len(text) - 1)) ELSE text
TrimSpace(text) == TrimRight(TrimLeft(text))

\* faulty variant: the forward scan does not wrap
SearchPosNoWrap(cursorPos, i, linesLen, reverse) ==
  IF reverse
  THEN IF cursorPos - i < 0 THEN cursorPos - i + linesLen ELSE cursorPos - i
  ELSE cursorPos + i

\* faulty variant: the scan starts at the anchor line
SearchPosFromAnchor(cursorPos, i, linesLen, reverse) ==
  IF reverse
  THEN IF cursorPos - (i - 1) < 0 THEN cursorPos - (i - 1) + linesLen
       ELSE cursorPos - (i - 1)
  ELSE (cursorPos + (i - 1)) % linesLen

\* faulty variant: n and N both scan forward
SearchPosForward(cursorPos, i, linesLen, reverse) == (cursorPos + i) % linesLen

\* faulty variant: the reverse scan starts from the end of the file
SearchPosReverseFromEnd(cursorPos, i, linesLen, reverse) ==
  IF reverse THEN linesLen - i ELSE (cursorPos + i) % linesLen

\* p of performSearch's i-th iteration
SearchPos(cursorPos, i, linesLen, reverse) ==
  IF reverse
  THEN IF cursorPos - i < 0 THEN cursorPos - i + linesLen ELSE cursorPos - i
  ELSE (cursorPos + i) % linesLen

\* performSearch's loop from iteration i on: whether a line was found, its
\* index p, and the indexes looked at
RECURSIVE SearchFrom(_, _, _, _, _)
SearchFrom(blame, term, cursorPos, reverse, i) ==
  IF i >= Len(blame.Lines)
  THEN [found |-> FALSE, p |-> cursorPos, scan |-> <<>>, panicked |-> FALSE]
  ELSE LET p == SearchPos(cursorPos, i, Len(blame.Lines), reverse)
       IN IF p \notin 0..(Len(blame.Lines) - 1)
          THEN \* app.CurrentBlame.Lines[p] is out of range
               [found |-> FALSE, p |-> p, scan |-> <<p>>, panicked |-> TRUE]
          ELSE IF Contains(blame.Lines[p + 1], term)
          THEN [found |-> TRUE, p |-> p, scan |-> <<p>>, panicked |-> FALSE]
          ELSE LET rest == SearchFrom(blame, term, cursorPos, reverse, i + 1)
               IN [rest EXCEPT !.scan = <<p>> \o rest.scan]

\* faulty variant: a search that finds nothing goes back to the first line
performSearchMissGoesHome(nav, bar, term, reverse, notFound) ==
  LET r == SearchFrom(nav.CurrentBlame, term, nav.CursorPosition, reverse, 1)
      sel == SelectionChanged(nav.CurrentBlame, r.p, bar)
      step(n, b, outcome) ==
        [nav |-> n, status |-> b, outcome |-> outcome, call |-> NoCall, env |-> "ok",
         term |-> term, scan |-> r.scan]
  IN IF r.panicked THEN step(nav, bar, "panic")
     ELSE IF ~r.found THEN step([nav EXCEPT !.CursorPosition = 0], notFound, "notfound")
     ELSE step([nav EXCEPT !.CursorPosition = sel.CursorPosition], sel.status,
               IF sel.panicked THEN "panic" ELSE "ok")

\* performSearch(app, reverse) with app.SearchTerm = term; notFound is the
\* bottom bar the caller shows when it returns false
performSearch(nav, bar, term, reverse, notFound) ==
  LET r == SearchFrom(nav.CurrentBlame, term, nav.CursorPosition, reverse, 1)
      sel == SelectionChanged(nav.CurrentBlame, r.p, bar)
      step(n, b, outcome) ==
        [nav |-> n, status |-> b, outcome |-> outcome, call |-> NoCall, env |-> "ok",
         term |-> term, scan |-> r.scan]
  IN IF r.panicked THEN step(nav, bar, "panic")
     ELSE IF ~r.found THEN step(nav, notFound, "notfound")
     ELSE step([nav EXCEPT !.CursorPosition = sel.CursorPosition], sel.status,
               IF sel.panicked THEN "panic" ELSE "ok")

\* a handler that does nothing
Ignored(nav, bar) == Step(nav, bar, "ignored", NoCall, "ok")

\* the input bar's DoneFunc in search mode, Enter pressed on inputContent
SubmitSearch(nav, bar, inputContent) ==
  IF inputContent = <<>> THEN Ignored(nav, bar)
  ELSE performSearch(nav, bar, TrimSpace(inputContent), FALSE,
                     ErrMsg("Pattern not found", TrimSpace(inputContent)))

\* the n and N keys
SearchAgain(nav, bar, term, reverse) ==
  IF term = <<>> THEN Ignored(nav, bar)
  ELSE performSearch(nav, bar, term, reverse, bar)

\* the rows selected by the presses of the same search key in a row, the
\* latest last; as many are kept as the file has lines
RunAfter(op, r) ==
  IF op \notin {"n", "N"} \/ r.outcome = "ignored" THEN NoRun
  ELSE LET before == IF run.op = op THEN run.seq ELSE <<>>
           all == Append(before, IF r.outcome = "ok" THEN r.nav.CursorPosition ELSE -1)
           keep == Len(r.nav.CurrentBlame.Lines)
       IN [op |-> op,
           seq |-> IF Len(all) > keep
                   THEN SubSeq(all, Len(all) - keep + 1, Len(all)) ELSE all]

\* faulty variant: a successful h or l forgets the search pattern
CommitForgetsTerm(op, r, ended) ==
  /\ SearchTerm' = IF op = "search" /\ r.outcome # "ignored" THEN r.term
                   ELSE IF op \in {"h", "l"} /\ r.outcome = "ok" THEN <<>>
                   ELSE SearchTerm
  /\ scan' = IF op \in {"search", "n", "N"} /\ r.outcome # "ignored" THEN r.scan ELSE <<>>
  /\ run' = RunAfter(op, r)
  /\ CurrentCommitId' = r.nav.CurrentCommitId
  /\ CursorPosition' = r.nav.CursorPosition
  /\ CurrentBlame' = r.nav.CurrentBlame
  /\ History' = r.nav.History
  /\ status' = r.status
  /\ session' = IF r.outcome = "panic" THEN "crashed"
                ELSE IF ended THEN "stopped" ELSE "running"
  /\ event' = Ev(op, r.outcome, r.call, r.env)
  /\ prev' = event
  /\ depth' = IF r.outcome # "ok" THEN depth
               ELSE IF op = "h" THEN depth + 1
               ELSE IF op = "l" THEN depth - 1 ELSE depth
  /\ UNCHANGED <<parseVars, world, linkVars, runVars>>

\* the handler's result becomes the session's state
Commit(op, r, ended) ==
  /\ SearchTerm' = IF op = "search" /\ r.outcome # "ignored" THEN r.term ELSE SearchTerm
  /\ scan' = IF op \in {"search", "n", "N"} /\ r.outcome # "ignored" THEN r.scan ELSE <<>>
  /\ run' = RunAfter(op, r)
  /\ CurrentCommitId' = r.nav.CurrentCommitId
  /\ CursorPosition' = r.nav.CursorPosition
  /\ CurrentBlame' = r.nav.CurrentBlame
  /\ History' = r.nav.History
  /\ status' = r.status
  /\ session' = IF r.outcome = "panic" THEN "crashed"
                ELSE IF ended THEN "stopped" ELSE "running"
  /\ event' = Ev(op, r.outcome, r.call, r.env)
  /\ prev' = event
  /\ depth' = IF r.outcome # "ok" THEN depth
               ELSE IF op = "h" THEN depth + 1
               ELSE IF op = "l" THEN depth - 1 ELSE depth
  /\ UNCHANGED <<parseVars, world, linkVars, runVars>>

NavInit ==
  /\ ParseIdle
  /\ LinkIdle
  /\ RunIdle
  /\ world \in Worlds
  /\ AppInit

\* TViewInit up to tApp.Run(); a failed first load ends the program
InitialLoad ==
  /\ session = "starting"
  /\ \E env \in Envs :
       LET r == FirstLoad(Nav, status, world, env)
       IN Commit("load", r, r.outcome = "failed")

\* the table moves the selection (j, k, g, G, arrows) and runs the callback
MoveSelection ==
  /\ session = "running"
  /\ \E row \in 0..(Len(CurrentBlame.Lines) - 1) :
       LET sel == SelectionChanged(CurrentBlame, row, status)
       IN Commit("move",
                 Step([Nav EXCEPT !.CursorPosition = sel.CursorPosition], sel.status,
                      IF sel.panicked THEN "panic" ELSE "ok", NoCall, "ok"),
                 FALSE)

\* the h key: go back to the revision before the selected line's commit
KeyH ==
  /\ session = "running"
  /\ \E env \in Envs : Commit("h", Descend(Nav, status, world, env), FALSE)

\* the l key: go forward again
KeyL ==
  /\ session = "running"
  /\ \E env \in Envs : Commit("l", Return(Nav, status, world, env), FALSE)

\* the q key
KeyQ ==
  /\ session = "running"
  /\ Commit("q", Step(Nav, status, "ok", NoCall, "ok"), TRUE)

\* what the user types into the input bar
SearchInputs ==
  {<<>>, <<" ">>, <<"a">>, <<" ", "a", " ">>, <<"b">>, <<"a", "b">>, <<"c">>, <<"z">>}

\* the / key, a pattern typed into the input bar, Enter
Search ==
  /\ session = "running"
  /\ \E inputContent \in SearchInputs :
       Commit("search", SubmitSearch(Nav, status, inputContent), FALSE)

\* the n key: the next line with the pattern
KeyN ==
  /\ session = "running"
  /\ Commit("n", SearchAgain(Nav, status, SearchTerm, FALSE), FALSE)

\* the N key: the previous line with the pattern
KeyShiftN ==
  /\ session = "running"
  /\ Commit("N", SearchAgain(Nav, status, SearchTerm, TRUE), FALSE)

\* the J key: ten lines down, no further than the last line
KeyShiftJ ==
  /\ session = "running"
  /\ LET to == CursorPosition + 10
         newPos == IF to >= Len(CurrentBlame.Lines) THEN Len(CurrentBlame.Lines) - 1 ELSE to
         sel == SelectionChanged(CurrentBlame, newPos, status)
     IN Commit("J",
               Step([Nav EXCEPT !.CursorPosition = sel.CursorPosition], sel.status,
                    IF sel.panicked THEN "panic" ELSE "ok", NoCall, "ok"),
               FALSE)

\* the K key: ten lines up, no further than the first line
KeyShiftK ==
  /\ session = "running"
  /\ LET to == CursorPosition - 10
         newPos == IF to < 0 THEN 0 ELSE to
         sel == SelectionChanged(CurrentBlame, newPos, status)
     IN Commit("K",
               Step([Nav EXCEPT !.CursorPosition = sel.CursorPosition], sel.status,
                    IF sel.panicked THEN "panic" ELSE "ok", NoCall, "ok"),
               FALSE)

NavNext ==
  \/ InitialLoad \/ MoveSelection \/ KeyH \/ KeyL \/ KeyQ \/ Search \/ KeyN \/ KeyShiftN
  \/ KeyShiftJ \/ KeyShiftK

SpecNav == NavInit /\ [][NavNext]_vars

\* ------------------------------------------------- the session's commands
LineLinkCommand == <<"l", "l">>
CommitLinkCommand == <<"c", "l">>

\* GitFindRemoteInfo: `git ls-remote --get-url` ran or failed; address is
\* what it printed, trimmed
GitFindRemoteInfo(address, ran) ==
  IF ~ran THEN [NoRemote EXCEPT !.err = TRUE] ELSE parseRemoteUrl(address)

\* faulty variant: the line of the link is the zero-based cursor position
handleCommandZeroBased(nav, command, address, ran) ==
  LET failed(msg, r) == [link |-> [url |-> <<>>, err |-> msg], remote |-> r,
                         panicked |-> FALSE]
      with(c, ri) ==
        IF ri.panicked THEN [link |-> NoLink, remote |-> ri, panicked |-> TRUE]
        ELSE IF ri.err THEN failed(<<"remote">>, ri)
        ELSE [link |-> IF command = LineLinkCommand
                       THEN buildLineLink(ri, c.CommitId, c.Filename, nav.CursorPosition)
                       ELSE buildCommitLink(ri, c.CommitId),
              remote |-> ri, panicked |-> FALSE]
      on(c) ==
        IF c.CommitId = NotCommittedId THEN failed(<<"not committed">>, NoRemote)
        ELSE with(c, GitFindRemoteInfo(address, ran))
  IN IF command \notin {LineLinkCommand, CommitLinkCommand}
     THEN failed(<<"Unknown command">> \o command, NoRemote)
     ELSE IF ~HasChunk(nav.CurrentBlame, nav.CursorPosition)
     THEN [link |-> NoLink, remote |-> NoRemote, panicked |-> TRUE]
     ELSE on(ChunkAt(nav.CurrentBlame, nav.CursorPosition))

\* faulty variant: the remote is looked up before the commit id is tested
handleCommandResolvesFirst(nav, command, address, ran) ==
  LET failed(msg, r) == [link |-> [url |-> <<>>, err |-> msg], remote |-> r,
                         panicked |-> FALSE]
      with(c, ri) ==
        IF ri.panicked THEN [link |-> NoLink, remote |-> ri, panicked |-> TRUE]
        ELSE IF ri.err THEN failed(<<"remote">>, ri)
        ELSE IF c.CommitId = NotCommittedId THEN failed(<<"not committed">>, ri)
        ELSE [link |-> IF command = LineLinkCommand
                       THEN buildLineLink(ri, c.CommitId, c.Filename, nav.CursorPosition + 1)
                       ELSE buildCommitLink(ri, c.CommitId),
              remote |-> ri, panicked |-> FALSE]
      on(c) == with(c, GitFindRemoteInfo(address, ran))
  IN IF command \notin {LineLinkCommand, CommitLinkCommand}
     THEN failed(<<"Unknown command">> \o command, NoRemote)
     ELSE IF ~HasChunk(nav.CurrentBlame, nav.CursorPosition)
     THEN [link |-> NoLink, remote |-> NoRemote, panicked |-> TRUE]
     ELSE on(ChunkAt(nav.CurrentBlame, nav.CursorPosition))

\* handleCommand(app, command): the link or the error it returns, the
\* remote it looked up, and whether it panicked
handleCommand(nav, command, address, ran) ==
  LET failed(msg, r) == [link |-> [url |-> <<>>, err |-> msg], remote |-> r,
                         panicked |-> FALSE]
      \* c is not the uncommitted chunk: ri is what GitFindRemoteInfo gave
      with(c, ri) ==
        IF ri.panicked THEN [link |-> NoLink, remote |-> ri, panicked |-> TRUE]
        ELSE IF ri.err THEN failed(<<"remote">>, ri)
        ELSE [link |-> IF command = LineLinkCommand
                       THEN buildLineLink(ri, c.CommitId, c.Filename,
                                          nav.CursorPosition + 1)
                       ELSE buildCommitLink(ri, c.CommitId),
              remote |-> ri, panicked |-> FALSE]
      on(c) ==
        IF c.CommitId = NotCommittedId THEN failed(<<"not committed">>, NoRemote)
        ELSE with(c, GitFindRemoteInfo(address, ran))
  IN IF command \notin {LineLinkCommand, CommitLinkCommand}
     THEN failed(<<"Unknown command">> \o command, NoRemote)
     ELSE IF ~HasChunk(nav.CurrentBlame, nav.CursorPosition)
     THEN \* c.CommitId on a nil *BlameChunk
          [link |-> NoLink, remote |-> NoRemote, panicked |-> TRUE]
     ELSE on(ChunkAt(nav.CurrentBlame, nav.CursorPosition))

\* faulty variant: the text typed is also stored as the search term
SubmitCommandStoresTerm(nav, bar, term, inputContent, address, ran) ==
  LET done(r) ==
        [nav |-> nav, term |-> inputContent, link |-> r.link, remote |-> r.remote,
         status |-> IF r.panicked THEN bar
                    ELSE IF r.link.err # <<>> THEN ErrMsg("command", r.link.err)
                    ELSE Msg("link", r.link.url),
         outcome |-> IF r.panicked THEN "panic"
                     ELSE IF r.link.err # <<>> THEN "failed" ELSE "ok"]
  IN done(handleCommand(nav, inputContent, address, ran))

\* the input bar's DoneFunc in command mode, Enter pressed on inputContent;
\* term is app.SearchTerm
SubmitCommand(nav, bar, term, inputContent, address, ran) ==
  LET done(r) ==
        [nav |-> nav, term |-> term, link |-> r.link, remote |-> r.remote,
         status |-> IF r.panicked THEN bar
                    ELSE IF r.link.err # <<>> THEN ErrMsg("command", r.link.err)
                    ELSE Msg("link", r.link.url),
         outcome |-> IF r.panicked THEN "panic"
                     ELSE IF r.link.err # <<>> THEN "failed" ELSE "ok"]
  IN IF inputContent = <<>>
     THEN [nav |-> nav, term |-> term, link |-> link, remote |-> remote,
           status |-> bar, outcome |-> "ignored"]
     ELSE done(handleCommand(nav, inputContent, address, ran))

\* a session in a repository whose remote address is raw
CmdInit ==
  /\ ParseIdle
  /\ RunIdle
  /\ world \in {"renamed", "dirty"}
  /\ AppInit
  /\ raw \in {SshExample, HttpsExample, <<"https://", "gitlab.com", "/", "owner", "/", "repo">>,
              <<"git@", "github.com">>}
  /\ remote = NoRemote
  /\ link = NoLink
  /\ lpc = "raw"

\* the : key, a command typed into the input bar, Enter
Command ==
  /\ session = "running"
  /\ \E inputContent \in {<<>>, LineLinkCommand, CommitLinkCommand, <<"l", "l", " ">>},
        ran \in BOOLEAN :
       \E r \in {SubmitCommand(Nav, status, SearchTerm, inputContent, raw, ran)} :
          /\ CurrentCommitId' = r.nav.CurrentCommitId
          /\ CursorPosition' = r.nav.CursorPosition
          /\ CurrentBlame' = r.nav.CurrentBlame
          /\ History' = r.nav.History
          /\ SearchTerm' = r.term
          /\ status' = r.status
          /\ link' = r.link
          /\ remote' = r.remote
          /\ lpc' = IF r.outcome = "panic" THEN "crashed"
                    ELSE IF r.outcome = "ignored" THEN lpc ELSE "linked"
          /\ session' = IF r.outcome = "panic" THEN "crashed" ELSE "running"
          /\ event' = Ev(IF inputContent = LineLinkCommand THEN "ll"
                         ELSE IF inputContent = CommitLinkCommand THEN "cl"
                         ELSE "command",
                         r.outcome, NoCall, IF ran THEN "ok" ELSE "exitfail")
  /\ prev' = event
  /\ scan' = <<>>
  /\ run' = NoRun
  /\ UNCHANGED <<parseVars, world, raw, runVars, depth>>

\* the / key, the pattern x typed into the input bar, Enter: the session's
\* first search
SearchFirst ==
  /\ session = "running"
  /\ SearchTerm = <<>>
  /\ Commit("search", SubmitSearch(Nav, status, <<"x">>), FALSE)

CmdNext == InitialLoad \/ MoveSelection \/ KeyH \/ KeyL \/ SearchFirst \/ Command

SpecCmd == CmdInit /\ [][CmdNext]_vars

\* ------------------------------------------- a remote address and its links
LinkInit ==
  /\ ParseIdle
  /\ RunIdle
  /\ world = "linear"
  /\ AppInit
  /\ raw \in RemoteInputs
  /\ remote = NoRemote
  /\ link = NoLink
  /\ lpc = "raw"

\* GitFindRemoteInfo: ri, err := parseRemoteUrl(raw)
ParseRemote ==
  /\ lpc = "raw"
  /\ remote' = parseRemoteUrl(raw)
  /\ lpc' = IF remote'.panicked THEN "crashed"
            ELSE IF remote'.err THEN "failed" ELSE "parsed"
  /\ UNCHANGED <<raw, link, parseVars, navVars, runVars>>

\* the ll command: buildLineLink on the remote found
LineLink ==
  /\ lpc \in {"parsed", "linked"}
  /\ \E id \in {IdA, IdB}, path \in {<<"f">>, <<"g">>}, lineNumber \in 1..MaxLineNo :
       link' = buildLineLink(remote, id, path, lineNumber)
  /\ lpc' = "linked"
  /\ UNCHANGED <<raw, remote, parseVars, navVars, runVars>>

\* the cl command: buildCommitLink on the remote found
CommitLink ==
  /\ lpc \in {"parsed", "linked"}
  /\ \E id \in {IdA, IdB} : link' = buildCommitLink(remote, id)
  /\ lpc' = "linked"
  /\ UNCHANGED <<raw, remote, parseVars, navVars, runVars>>

LinkNext == ParseRemote \/ LineLink \/ CommitLink

SpecLink == LinkInit /\ [][LinkNext]_vars

\* ------------------------------------- goroutines, subprocesses, signals
\* The main goroutine runs TViewInit: the first GitBlame, then tApp.Run(),
\* whose event loop runs the key handlers; a second goroutine waits for
\* SIGINT or SIGTERM.  Every subprocess is started with gitArgs.Context,
\* which kills it once the context is cancelled.
RunInit ==
  /\ ParseIdle
  /\ LinkIdle
  /\ world = "linear"
  /\ AppInit
  /\ RunIdle

\* how a GitBlame call whose subprocess started can return: after a scan
\* that met no error or that stopped at a line that is no group header, with
\* or without a read error, the subprocess exiting with status 0 or not
CallOutcomes ==
  {Deferred(AfterLoop(scanned, readErr), exitOk) :
     scanned \in {ParserInit, ScanLine(ParserInit, H3(IdA, 1))},
     readErr \in BOOLEAN, exitOk \in BOOLEAN}

\* the subprocesses that have been started and have not exited
InFlight == (IF cur = "running" THEN 1 ELSE 0) + leaked

\* the process ends: its goroutines end with it, and a subprocess blocked
\* writing to the pipe the process held is ended by the closed pipe
Exited ==
  /\ main' = "exited" /\ caller' = "none" /\ screen' = FALSE
  /\ cur' = "none" /\ leaked' = 0

\* GitBlame is called: cmd.Start() (it fails when the context is cancelled)
BeginBlame(kind) ==
  \E started \in BOOLEAN :
    IF started /\ ctx = "live"
    THEN /\ main' = "inblame" /\ caller' = kind /\ cur' = "running"
         /\ UNCHANGED <<screen, halted, leaked>>
    ELSE IF kind = "load"
    THEN Exited /\ UNCHANGED halted            \* TViewInit returns the error
    ELSE UNCHANGED <<main, caller, cur, screen, halted, leaked>>

\* TViewInit's first GitBlame call
BeginLoad ==
  /\ main = "load"
  /\ BeginBlame("load")
  /\ UNCHANGED <<ctx, sig, parseVars, navVars, linkVars>>

\* a key handler (h or l) calls GitBlame
BeginKey ==
  /\ main = "idle" /\ ~halted
  /\ \E key \in {"h", "l"} : BeginBlame(key)
  /\ UNCHANGED <<ctx, sig, parseVars, navVars, linkVars>>

\* GitBlame returns.  A subprocess it has not waited for has either ended
\* by itself or is still running, blocked writing its output
EndBlame ==
  /\ main = "inblame"
  /\ \E r \in CallOutcomes, blocked \in BOOLEAN :
       /\ cur = "exited" => r.err # NilErr     \* killed: no exit status 0
       /\ blocked => (cur = "running" /\ ~r.waited /\ leaked < MaxLeaked)
       /\ out' = r
       /\ IF caller = "load" /\ (cur = "exited" \/ r.err # NilErr)
          THEN \* TViewInit returns the error
               /\ main' = "exited" /\ screen' = FALSE /\ leaked' = 0
          ELSE /\ main' = IF caller = "load" THEN "prerun" ELSE "idle"
               /\ screen' = screen
               /\ leaked' = IF blocked THEN leaked + 1 ELSE leaked
  /\ caller' = "none"
  /\ cur' = "none"
  /\ UNCHANGED <<halted, ctx, sig, navVars, linkVars>>
  /\ UNCHANGED <<ps, pc, scanErr, proc, nread, line, input, sizeSum, wf>>

\* tApp.Run() sets up the screen and enters the event loop
EnterRun ==
  /\ main = "prerun"
  /\ main' = "idle"
  /\ screen' = TRUE
  /\ UNCHANGED <<caller, halted, ctx, sig, cur, leaked, parseVars, navVars, linkVars>>

\* the q key: tApp.Stop()
Quit ==
  /\ main = "idle" /\ ~halted
  /\ screen' = FALSE
  /\ halted' = TRUE
  /\ UNCHANGED <<main, caller, ctx, sig, cur, leaked, parseVars, navVars, linkVars>>

\* the event loop finds the screen finalized: tApp.Run() and run() return
LoopEnds ==
  /\ main = "idle" /\ halted
  /\ Exited
  /\ UNCHANGED <<halted, ctx, sig, parseVars, navVars, linkVars>>

\* SIGINT or SIGTERM is delivered: <-signals returns
Signal ==
  /\ main # "exited"
  /\ sig = "waiting"
  /\ sig' = "stop"
  /\ UNCHANGED <<main, caller, screen, halted, ctx, cur, leaked, parseVars, navVars, linkVars>>

\* the signal goroutine calls tApp.Stop(), which returns at once when the
\* application has no screen
SignalStop ==
  /\ main # "exited"
  /\ sig = "stop"
  /\ sig' = "cancel"
  /\ halted' = (halted \/ screen)
  /\ screen' = FALSE
  /\ UNCHANGED <<main, caller, ctx, cur, leaked, parseVars, navVars, linkVars>>

\* the signal goroutine calls cancel()
SignalCancel ==
  /\ main # "exited"
  /\ sig = "cancel"
  /\ sig' = "done"
  /\ ctx' = "cancelled"
  /\ UNCHANGED <<main, caller, screen, halted, cur, leaked, parseVars, navVars, linkVars>>

\* exec.CommandContext: the subprocesses are killed once the context is done
Kill ==
  /\ main # "exited"
  /\ ctx = "cancelled"
  /\ InFlight > 0
  /\ cur' = IF cur = "running" THEN "exited" ELSE cur
  /\ leaked' = 0
  /\ UNCHANGED <<main, caller, screen, halted, ctx, sig, parseVars, navVars, linkVars>>

RunNext ==
  \/ BeginLoad \/ BeginKey \/ EndBlame \/ EnterRun \/ Quit \/ LoopEnds
  \/ Signal \/ SignalStop \/ SignalCancel \/ Kill

\* the program's own steps happen when they can; keys and signals need not
RunFairness ==
  /\ WF_vars(BeginLoad) /\ WF_vars(EndBlame) /\ WF_vars(EnterRun)
  /\ WF_vars(LoopEnds) /\ WF_vars(SignalStop) /\ WF_vars(SignalCancel)
  /\ WF_vars(Kill)

SpecRun == RunInit /\ [][RunNext]_vars /\ RunFairness

\* ----------------------------------------------------------------- claims
\* the GitBlame call has returned a snapshot and no error
Succeeded == pc = "done" /\ ~out.panicked /\ out.err = NilErr /\ ~out.b.nil

\* C1: on a well-formed stream on which GitBlame succeeds, Lines has as many
\* entries as the group headers announced in total, and every index
\* 0..len(Lines)-1 is a key of LineToChunkMap.
C1_SizesAndIndexes ==
  (Succeeded /\ WfComplete(wf)) =>
    /\ Len(out.b.Lines) = sizeSum
    /\ \A i \in 0..(Len(out.b.Lines) - 1) : i \in DOMAIN out.b.LineToChunkMap

\* a well-formed stream of two groups of different commits was parsed
C1_Witness ==
  /\ Succeeded /\ WfComplete(wf)
  /\ Len(out.b.Lines) = 2
  /\ Len(out.b.Chunks) = 2

\* C2: a GitBlame call that returns ends with a snapshot and no error, or
\* with an error and a nil snapshot, never with both or neither.
C2_SnapshotXorError ==
  (pc = "done" /\ ~out.panicked) =>
    \/ ~out.b.nil /\ out.err = NilErr
    \/ out.b.nil /\ out.err # NilErr

\* the chunks the lines of a parser state point to: one per commit id
OneChunkPerId(p) ==
  /\ \A i, j \in DOMAIN p.lineToChunkMap :
       p.heap[p.lineToChunkMap[i]].CommitId = p.heap[p.lineToChunkMap[j]].CommitId
         => p.lineToChunkMap[i] = p.lineToChunkMap[j]
  /\ \A a, b \in 1..Len(p.heap) : p.heap[a].CommitId = p.heap[b].CommitId => a = b

\* C10: the lines of all groups of one commit id point to one Chunk, and a
\* Chunk changes only while its first group is read: a later group of the
\* id (chunkPopulated) leaves every field as the first group set it.
C10_SharedChunk ==
  [][/\ OneChunkPerId(ps')
     /\ \A a \in 1..Len(ps.heap) :
          ps'.heap[a] # ps.heap[a] => (a = ps.chunk /\ ~ps.chunkPopulated)]_vars

\* a well-formed stream ended in a second group of an id seen before
C10_Witness ==
  /\ Succeeded /\ WfComplete(wf)
  /\ ps.chunkPopulated
  /\ Cardinality({i \in DOMAIN ps.lineToChunkMap : ps.lineToChunkMap[i] = ps.chunk}) >= 2

\* the chunk of the line selected before the last handler ran
PreChunk == ChunkAt(event.pre.CurrentBlame, event.pre.CursorPosition)
PreHasChunk == HasChunk(event.pre.CurrentBlame, event.pre.CursorPosition)

\* the last handler called GitBlame and the call returned an error
CallFailed ==
  /\ event.call # NoCall
  /\ LET ret == GitBlame(world, event.call[1], event.call[2], event.env)
     IN ~ret.panicked /\ ret.err # NilErr

\* C3: the h key on a line whose Chunk has an empty PreviousCommitId is
\* rejected: GitBlame is not called and CurrentCommitId, CursorPosition,
\* History and CurrentBlame are as before.
C3_DescendAtRootRejected ==
  (event.op = "h" /\ PreHasChunk /\ PreChunk.PreviousCommitId = "") =>
    /\ event.outcome = "rejected"
    /\ event.call = NoCall
    /\ Nav = event.pre
    /\ status.error

\* the h key was rejected below the latest revision
C3_Witness ==
  /\ event.op = "h" /\ event.outcome = "rejected"
  /\ PreChunk.PreviousCommitId = ""
  /\ Len(History) >= 1

\* C4: a successful h followed at once by a successful l leaves
\* CurrentCommitId, CursorPosition and History as they were before the h.
C4_DescendReturnRoundTrip ==
  (prev.op = "h" /\ prev.outcome = "ok" /\ event.op = "l" /\ event.outcome = "ok") =>
    /\ CurrentCommitId = prev.pre.CurrentCommitId
    /\ CursorPosition = prev.pre.CursorPosition
    /\ History = prev.pre.History

\* a round trip from one revision back, in which the h key clamped the cursor
C4_Witness ==
  /\ prev.op = "h" /\ prev.outcome = "ok" /\ event.op = "l" /\ event.outcome = "ok"
  /\ Len(History) >= 1
  /\ event.pre.CursorPosition < CursorPosition

\* C5: l undoes h: after a successful h, an l whose subprocess runs well
\* re-parses the revision and file that were on display before the h, so it
\* succeeds and shows the snapshot shown before the h.
C5_ReturnUndoesDescend ==
  (prev.op = "h" /\ prev.outcome = "ok" /\ event.op = "l" /\ event.env = "ok") =>
    /\ event.outcome = "ok"
    /\ CurrentBlame = prev.pre.CurrentBlame

\* C6: a successful h from a line with Chunk c calls GitBlame with
\* (c.PreviousCommitId, c.PreviousFilename), pushes the one item {old
\* CurrentCommitId, old CursorPosition, c.Filename}, sets CurrentCommitId to
\* c.PreviousCommitId, CurrentBlame to the snapshot returned and
\* CursorPosition to min(old CursorPosition, len(new Lines) - 1).
C6_DescendEffect ==
  (event.op = "h" /\ event.outcome = "ok") =>
    LET old == event.pre
        c == PreChunk
        last == Len(CurrentBlame.Lines) - 1
    IN /\ c.PreviousCommitId # ""
       /\ event.call = <<c.PreviousCommitId, c.PreviousFilename>>
       /\ History = Append(old.History,
                           [CommitId |-> old.CurrentCommitId,
                            CursorPosition |-> old.CursorPosition,
                            Filename |-> c.Filename])
       /\ CurrentCommitId = c.PreviousCommitId
       /\ CurrentBlame =
            GitBlame(world, c.PreviousCommitId, c.PreviousFilename, event.env).b
       /\ CursorPosition = IF old.CursorPosition < last THEN old.CursorPosition ELSE last

\* a successful h onto a shorter revision of the file
C6_Witness ==
  /\ event.op = "h" /\ event.outcome = "ok"
  /\ CursorPosition < event.pre.CursorPosition
  /\ Len(History) = 2

\* C7: when the GitBlame call of the h or the l key returns an error,
\* CurrentCommitId, CursorPosition, History and CurrentBlame are as before
\* the key and the bottom bar shows the error.
C7_FailureKeepsState ==
  (event.op \in {"h", "l"} /\ CallFailed) =>
    /\ event.outcome = "failed"
    /\ Nav = event.pre
    /\ status.error /\ status.kind = "error"

\* an h key and then an l key both failed below the latest revision
C7_Witness ==
  /\ prev.op = "h" /\ prev.outcome = "failed"
  /\ event.op = "l" /\ event.outcome = "failed" /\ CallFailed
  /\ Len(History) >= 1

\* C8 as claimed: a failed l leaves the History stack one item shorter
C8_PoppedOnFailure ==
  (event.op = "l" /\ CallFailed) =>
    /\ Len(History) = Len(event.pre.History) - 1
    /\ CurrentCommitId = event.pre.CurrentCommitId
    /\ CursorPosition = event.pre.CursorPosition
    /\ CurrentBlame = event.pre.CurrentBlame

\* C8: when the GitBlame call of the l key returns an error the top history
\* item stays on the stack: History, CurrentCommitId, CursorPosition and
\* CurrentBlame keep their values, and an l key pressed next calls GitBlame
\* with that same item.
C8_KeptOnFailure ==
  (event.op = "l" /\ CallFailed) =>
    /\ History = event.pre.History
    /\ Len(History) >= 1
    /\ event.call = <<History[Len(History)].CommitId, History[Len(History)].Filename>>
    /\ CurrentCommitId = event.pre.CurrentCommitId
    /\ CursorPosition = event.pre.CursorPosition
    /\ CurrentBlame = event.pre.CurrentBlame

\* an l key failed two revisions back
C8_Witness ==
  /\ event.op = "l" /\ CallFailed
  /\ Len(History) = 2

\* C9: the l key with an empty History is rejected with the "latest
\* revision" message: GitBlame is not called and CurrentCommitId,
\* CursorPosition, History and CurrentBlame are as before.
C9_ReturnAtLatestRejected ==
  (event.op = "l" /\ event.pre.History = <<>>) =>
    /\ event.outcome = "rejected"
    /\ event.call = NoCall
    /\ Nav = event.pre
    /\ status = ErrMsg("You are on the latest revision of this file.", <<>>)

\* an l key came back to the latest revision and the next l was rejected
C9_Witness ==
  /\ prev.op = "l" /\ prev.outcome = "ok"
  /\ event.op = "l" /\ event.outcome = "rejected"

\* ------------------------------------------------ group headers (C11, C13)
\* the loop iteration that read a line where a group begins
ReadsGroupStart == pc = "scan" /\ nread' = nread + 1 /\ ps.linesInChunk = 0

\* C11, as stated: where a group begins, a header without a size field whose
\* commit id was seen before is accepted and opens a group on the Chunk that
\* id already has.
C11_SizelessHeaderAccepted ==
  [][(ReadsGroupStart /\ LineInChunkHeader(line')
        /\ line'[1] \in DOMAIN ps.idToChunkMap)
     => (/\ ps'.err = NilErr
         /\ ps'.chunkPopulated
         /\ ps'.chunk = ps.idToChunkMap[line'[1]])]_vars

\* C11, amended: every group is opened by a four-field header.  A header
\* without size read where a group begins fails the parse with a format
\* error; a four-field header whose id was seen before opens a group on the
\* Chunk that id already has, allocating nothing.
C11_SizedHeaderReusesChunk ==
  [][ReadsGroupStart
     => (/\ LineInChunkHeader(line')
               => (ps'.err = MkErr("format", line') /\ pc' = "exit")
         /\ (BlameChunkHeader(line') /\ line'[1] \in DOMAIN ps.idToChunkMap)
               => (/\ ps'.chunkPopulated
                   /\ ps'.chunk = ps.idToChunkMap[line'[1]]
                   /\ ps'.heap = ps.heap
                   /\ ps'.idToChunkMap = ps.idToChunkMap
                   /\ ps'.err.kind \in {"nil", "range"}))]_vars

\* a second group of a commit was opened on its existing Chunk
C11_Witness ==
  /\ pc = "scan" /\ BlameChunkHeader(line) /\ ps.chunkPopulated
  /\ ps.linesInChunk = Atoi(line[4]).val /\ Len(ps.lines) >= 1
  /\ line[1] \in DOMAIN ps.idToChunkMap
  /\ ps.chunk = ps.idToChunkMap[line[1]] /\ Len(ps.heap) = 1

\* C12: for the stream describing commit A adding lines 1-3 and commit B
\* changing line 2 (previous A, same filename), a call that starts, reads
\* the stream without a read error and whose subprocess exits with status 0
\* returns a snapshot of three lines: index 1 belongs to a Chunk of B whose
\* PreviousCommitId is A, indexes 0 and 2 to one and the same Chunk of A with
\* an empty PreviousCommitId.
C12_ExampleSnapshot ==
  (pc = "done" /\ out.err.kind \notin {"start", "read", "exit"})
    => /\ out.err = NilErr /\ ~out.panicked /\ ~out.b.nil
       /\ Len(out.b.Lines) = 3
       /\ DOMAIN out.b.LineToChunkMap = {0, 1, 2}
       /\ out.b.Chunks[out.b.LineToChunkMap[1]].CommitId = IdB
       /\ out.b.Chunks[out.b.LineToChunkMap[1]].PreviousCommitId = IdA
       /\ out.b.LineToChunkMap[0] = out.b.LineToChunkMap[2]
       /\ out.b.Chunks[out.b.LineToChunkMap[0]].CommitId = IdA
       /\ out.b.Chunks[out.b.LineToChunkMap[0]].PreviousCommitId = ""

\* the call on an example stream returned its snapshot
C12_Witness ==
  /\ Succeeded /\ input = <<>> /\ nread >= 13 /\ proc = "waited"
  /\ Len(out.b.Lines) = 3 /\ Len(out.b.Chunks) = 2

\* C13: when no group is open and the line read does not have the shape of
\* a group header, the scan stops with an error carrying that line, and the
\* call returns that error and no snapshot.
C13_HeaderMismatchFails ==
  [][/\ (ReadsGroupStart /\ ~BlameChunkHeader(line'))
          => (ps'.err = MkErr("format", line') /\ pc' = "exit")
     /\ (pc' = "done" /\ ps'.err.kind = "format")
          => (out'.b.nil /\ out'.err = ps'.err /\ ~out'.panicked)]_vars

\* a call that failed on a malformed header after it had parsed a line
C13_Witness ==
  /\ pc = "done" /\ out.err = MkErr("format", line) /\ out.b.nil
  /\ ~BlameChunkHeader(line) /\ Len(ps.lines) >= 1

\* ------------------------------------------------------ search (C14 - C16)
\* the last handler ran performSearch, forward or in reverse
Searched == event.op \in {"search", "n", "N"} /\ event.outcome # "ignored"
SearchedReverse == event.op = "N"

\* the line indexes of the displayed file that contain the search term
Matches ==
  {p \in 0..(Len(CurrentBlame.Lines) - 1) : Contains(CurrentBlame.Lines[p + 1], SearchTerm)}

Least(S) == CHOOSE m \in S : \A o \in S : m <= o
Greatest(S) == CHOOSE m \in S : \A o \in S : m >= o

\* C14: a forward search from cursor c for a term found only in lines before
\* c selects the first of them: the scan wraps past the end of the file.
C14_ForwardSearchWraps ==
  (/\ Searched /\ ~SearchedReverse
   /\ Matches # {}
   /\ \A m \in Matches : m < event.pre.CursorPosition)
    => /\ event.outcome = "ok"
       /\ CursorPosition = Least(Matches)
       /\ scan = [j \in 1..Len(scan) |->
                    (event.pre.CursorPosition + j) % Len(CurrentBlame.Lines)]

\* a forward search found its line after wrapping past the last line of the file
C14_Witness ==
  /\ Searched /\ ~SearchedReverse /\ event.outcome = "ok"
  /\ Matches # {} /\ \A m \in Matches : m < event.pre.CursorPosition
  /\ CursorPosition = 0 /\ event.pre.CursorPosition = 3
  /\ Len(CurrentBlame.Lines) = 5 /\ scan = <<4, 0>>

\* C15: performSearch on n lines from cursor c looks at no more than n - 1
\* lines and never at line c, in the order c+1, c+2, ... (mod n) forward and
\* c-1, c-2, ... (mod n) in reverse; it selects the first of them that
\* contains the term and reports not found exactly when no line other than
\* c contains it, as it does on a one-line file.
C15_ScanOrder ==
  Searched =>
    LET n == Len(CurrentBlame.Lines)
        c == event.pre.CursorPosition
        cand(j) == IF SearchedReverse THEN (c + n - j) % n ELSE (c + j) % n
        found == event.outcome = "ok"
    IN /\ event.outcome \in {"ok", "notfound"}
       /\ Len(scan) <= n - 1
       /\ \A j \in 1..Len(scan) : scan[j] = cand(j) /\ scan[j] # c
       /\ \A j \in 1..Len(scan) : (scan[j] \in Matches) <=> (found /\ j = Len(scan))
       /\ found => (scan # <<>> /\ CursorPosition = scan[Len(scan)])
       /\ ~found => (Len(scan) = n - 1 /\ CursorPosition = c)
       /\ ~found <=> Matches \subseteq {c}
       /\ n = 1 => ~found

\* a reverse search that passed over lines without the term, and a search
\* whose only line with the term is the line it started from
C15_Witness ==
  \/ /\ Searched /\ SearchedReverse /\ event.outcome = "ok" /\ Len(scan) >= 3
  \/ /\ Searched /\ event.outcome = "notfound" /\ Matches = {event.pre.CursorPosition}

\* C16: while the stored term (a non-empty one: with none stored the keys
\* do nothing) is in k >= 2 lines, every press of n selects the next
\* line with the term after the cursor, wrapping around, so the last k presses
\* in a row have selected each of the k lines once; N does the same towards
\* the previous line.  This holds however long the presses go on.
C16_RoundRobin ==
  (session = "running" /\ run.op \in {"n", "N"} /\ Cardinality(Matches) >= 2)
    => LET k == Cardinality(Matches)
           len == Len(run.seq)
           after(m) == IF \E o \in Matches : o > m
                       THEN Least({o \in Matches : o > m}) ELSE Least(Matches)
           before(m) == IF \E o \in Matches : o < m
                        THEN Greatest({o \in Matches : o < m}) ELSE Greatest(Matches)
       IN /\ \A j \in 1..len : run.seq[j] \in Matches
          /\ run.seq[len] = CursorPosition
          /\ \A j \in 1..(len - 1) :
               run.seq[j + 1] = IF run.op = "n" THEN after(run.seq[j]) ELSE before(run.seq[j])
          /\ len >= k => {run.seq[j] : j \in (len - k + 1)..len} = Matches

\* n was pressed more often in a row than the term has lines, and came round
C16_Witness ==
  /\ session = "running" /\ run.op = "n" /\ Cardinality(Matches) = 3
  /\ Len(run.seq) = 5 /\ run.seq[1] = run.seq[4] /\ run.seq[2] = run.seq[5]

\* ------------------------------------------------- remote links (C17, C18)
GitHubOwnerRepo ==
  [nil |-> FALSE, Host |-> <<"github.com">>, Repo |-> <<"owner", "/", "repo">>,
   err |-> FALSE, panicked |-> FALSE]

\* C17: parseRemoteUrl maps git@github.com:owner/repo.git and
\* https://github.com/owner/repo to Host github.com, Repo owner/repo; a
\* trailing .git does not change the result, and the host and repo returned
\* neither begin nor end with a slash.
C17_RemoteParsed ==
  lpc # "raw" =>
    /\ raw \in {SshExample, HttpsExample} => remote = GitHubOwnerRepo
    /\ (raw # <<>> /\ raw[Len(raw)] = ".git")
          => remote = parseRemoteUrl(SubSeq(raw, 1, Len(raw) - 1))
    /\ (~remote.nil /\ raw # <<>> /\ raw[Len(raw)] = ".git")
          => \A k \in 1..Len(remote.Repo) : remote.Repo[k] # ".git"
    /\ ~remote.nil
          => /\ TrimSlashes(remote.Host) = remote.Host
             /\ TrimSlashes(remote.Repo) = remote.Repo
             /\ (remote.Host # <<>> => Head(remote.Host) # "/")
             /\ (remote.Repo # <<>> => remote.Repo[Len(remote.Repo)] # "/")

\* the address with git@ and .git has been parsed
C17_Witness == lpc = "parsed" /\ raw = SshExample /\ remote = GitHubOwnerRepo

\* C18: buildLineLink and buildCommitLink return an error and no link for a
\* host other than github.com, and a link and no error for github.com.
C18_OnlyGitHubLinks ==
  lpc = "linked" =>
    IF remote.Host = <<"github.com">>
    THEN /\ link.err = <<>>
         /\ Len(link.url) >= 3
         /\ Head(link.url) = "https://github.com/"
    ELSE /\ link.url = <<>>
         /\ link.err = <<"Cannot construct link for remote">> \o remote.Host

\* a link was asked for a repository on gitlab.com
C18_Witness ==
  /\ lpc = "linked" /\ remote.Host = <<"gitlab.com">> /\ remote.Repo # <<>>
  /\ link.url = <<>> /\ link.err # <<>>

\* ------------------------------------------- subprocesses (C19) and signals (C20)
\* C19: at most one blame subprocess is in flight at any time, also after a
\* call that ended with a parse or read error.
C19_AtMostOneInFlight == InFlight <= 1

\* C20: once SIGINT or SIGTERM has been delivered, every subprocess in
\* flight is eventually ended and the session eventually stops.
C20_SignalStopsSession ==
  (sig # "waiting") ~> (main = "exited" /\ InFlight = 0)

\* ------------------------------------------------- the session survives (C21)
\* C21: once the initial load has succeeded, no handler ends or crashes the
\* session: after every key it is running, or stopped by the q key.
C21_SessionSurvives ==
  (event.op \notin {"none", "load"}) =>
    \/ session = "running"
    \/ session = "stopped" /\ event.op = "q"

\* ------------------------------------------------ any input stream (C22 - C27)
\* C22: every snapshot a GitBlame call returns, whatever the stream, has as
\* many Lines as the group headers read announced in total, and every index
\* 0..len(Lines)-1 is a key of LineToChunkMap.
C22_SnapshotInvariantAnyStream ==
  Succeeded =>
    /\ Len(out.b.Lines) = sizeSum
    /\ DOMAIN out.b.LineToChunkMap = 0..(Len(out.b.Lines) - 1)

\* the loop iteration that read a line inside a group
ReadsInGroup == pc = "scan" /\ nread' = nread + 1 /\ ps.linesInChunk > 0

\* the line read last was taken as a content line
ContentRead == nread > 0 /\ HasTabPrefix(line) /\ ps.err = NilErr

\* C23: the text of every content line read is stored in Lines at the
\* zero-based final line number tracked when it is read, the index that is
\* mapped to the current Chunk.
C23_StoredAtLineNumber ==
  ContentRead =>
    /\ Len(ps.lines) - 1 = ps.lineNumber
    /\ ps.lineNumber \in DOMAIN ps.lineToChunkMap
    /\ ps.lineToChunkMap[ps.lineNumber] = ps.chunk

\* C24: no input line makes GitBlame crash: the scan never panics and the
\* call ends with a snapshot or an error.
C24_NeverPanics ==
  /\ ps.ctl # "panic"
  /\ pc = "done" => (~out.panicked /\ (~out.b.nil \/ out.err # NilErr))

\* C25: in a group opened for a commit id seen before, a line that is
\* neither a header nor a content line changes nothing: no field of any
\* Chunk, not Lines, not the remaining-lines counter.
C25_PopulatedIgnoresMetadata ==
  [][(/\ ReadsInGroup /\ ps.chunkPopulated
      /\ ~LineInChunkHeader(line') /\ ~HasTabPrefix(line'))
     => (ps' = ps /\ pc' = "scan")]_vars

\* a metadata line was read in the second group of a commit
C25_Witness ==
  /\ pc = "scan" /\ ps.chunkPopulated /\ ps.linesInChunk > 0
  /\ line \in {<<AuthorKey, "Ann">>, <<AuthorTimeKey, "soon">>, <<PreviousKey, "dead">>}
  /\ Len(ps.lines) >= 1 /\ ps.err = NilErr

\* C26: inside a group, a header without size sets the tracked line number
\* to its final-line field minus one and changes nothing else.
C26_LineHeaderOnlyMovesLineNumber ==
  [][(ReadsInGroup /\ LineInChunkHeader(line') /\ ~Atoi(line'[3]).failed)
     => (/\ ps' = [ps EXCEPT !.lineNumber = Atoi(line'[3]).val - 1]
         /\ pc' = "scan")]_vars

\* a header without size moved the line number inside a group that has
\* given a line already
C26_Witness ==
  /\ pc = "scan" /\ LineInChunkHeader(line) /\ ps.err = NilErr
  /\ ps.linesInChunk = 1 /\ Len(ps.lines) = 1
  /\ ps.lineNumber = Atoi(line[3]).val - 1 /\ ps.lineNumber # Len(ps.lines)

\* the line read last is an author-time line of a group whose Chunk is new
AuthorTimeRead ==
  /\ nread > 0 /\ Len(line) = 2 /\ line[1] = AuthorTimeKey
  /\ ps.err.kind # "format" /\ ~ps.chunkPopulated

\* C27: an author-time line of a not-populated group whose value is no
\* integer fails the whole call with that error and no snapshot; a valid
\* value becomes the Chunk's AuthorTime.
C27_AuthorTime ==
  AuthorTimeRead =>
    IF Atoi(line[2]).failed
    THEN /\ ps.err = MkErr("syntax", line) /\ pc \in {"exit", "done"}
         /\ pc = "done" => (out.b.nil /\ out.err = ps.err /\ ~out.panicked)
    ELSE /\ ps.err = NilErr
         /\ ps.heap[ps.chunk].AuthorTime = Atoi(line[2]).val

\* the call failed on an author-time of a second group, after a first group
\* had been parsed
C27_Witness ==
  /\ AuthorTimeRead /\ Atoi(line[2]).failed /\ pc = "done"
  /\ out.b.nil /\ out.err.kind = "syntax"
  /\ Len(ps.lines) >= 1 /\ Len(ps.heap) = 2

\* ------------------------------------------------- parser invocations (C28)
\* the item on top of History before the last handler ran
PreItem == event.pre.History[Len(event.pre.History)]

\* C28: a rejected h or l calls GitBlame not at all, an accepted one calls
\* it once; after a successful l, CurrentBlame is what GitBlame returned for
\* the popped item's (CommitId, Filename), not a saved snapshot.
C28_OneParsePerMove ==
  event.op \in {"h", "l"} =>
    /\ event.outcome = "rejected" => event.call = NoCall
    /\ event.outcome \in {"ok", "failed"} => Len(event.call) = 2
    /\ (event.op = "l" /\ event.outcome = "ok") =>
         /\ event.call = <<PreItem.CommitId, PreItem.Filename>>
         /\ CurrentBlame =
              GitBlame(world, PreItem.CommitId, PreItem.Filename, event.env).b

\* a successful l brought back a snapshot other than the one shown before
C28_Witness ==
  /\ event.op = "l" /\ event.outcome = "ok" /\ session = "running"
  /\ CurrentBlame # event.pre.CurrentBlame
  /\ Len(History) = Len(event.pre.History) - 1
  /\ prev.op = "h" /\ prev.outcome = "ok"

\* --------------------------------------------------- link commands (C29, C30)
\* the last handler ran the ll or the cl command
Linked == event.op \in {"ll", "cl"}

\* C29: on a committed line of a repository whose remote is
\* github.com/owner/repo, the ll command gives
\* https://github.com/owner/repo/blob/<CommitId>/<Filename>#L<n> and the cl
\* command https://github.com/owner/repo/commit/<CommitId>, CommitId and
\* Filename being those of the Chunk of the cursor line, n = CursorPosition + 1.
C29_LinkFormat ==
  (/\ Linked /\ PreHasChunk /\ event.env = "ok"
   /\ raw \in {SshExample, HttpsExample})
  => IF PreChunk.CommitId = NotCommittedId THEN link.url = <<>> /\ link.err # <<>>
     ELSE /\ link.err = <<>>
          /\ event.op = "ll" =>
               link.url = <<"https://github.com/">> \o GitHubOwnerRepo.Repo
                            \o <<"/blob/", PreChunk.CommitId, "/">> \o PreChunk.Filename
                            \o <<"#L", Decimal[event.pre.CursorPosition + 2]>>
          /\ event.op = "cl" =>
               link.url = <<"https://github.com/">> \o GitHubOwnerRepo.Repo
                            \o <<"/commit/", PreChunk.CommitId>>

\* a line link was built for the second line of a file whose lines come
\* from a commit that knew the file under another name
C29_Witness ==
  /\ event.op = "ll" /\ event.outcome = "ok" /\ world = "renamed"
  /\ CursorPosition = 1 /\ CurrentCommitId = ""
  /\ PreChunk.Filename = <<"f">>
  /\ link.url # <<>> /\ link.url[Len(link.url)] = "2"

\* C30: the ll and cl commands, whether they give a link or an error, leave
\* CurrentCommitId, CursorPosition, History, CurrentBlame and SearchTerm as
\* they were.
C30_CommandsKeepState ==
  [][event'.op \in {"ll", "cl"} =>
       UNCHANGED <<CurrentCommitId, CursorPosition, History, CurrentBlame, SearchTerm>>]_vars

\* a link command failed in a session that has a search term and a history
C30_Witness ==
  /\ Linked /\ event.outcome = "failed" /\ session = "running"
  /\ SearchTerm # <<>> /\ History # <<>> /\ link.err # <<>>


\* ------------------------------------------- session state (C31 - C35, C37, C38)
\* C31: the stored search term changes only in a step that submits a search;
\* h, l, n, N, q, J, K and the moves of the selection leave it as it was, so that a
\* press of n or N after h or l looks for the term stored before, in the lines
\* of the file now displayed: it does something whenever a term is stored, and
\* the line it selects contains that term.
C31_TermOnlyFromSearch ==
  [][/\ SearchTerm' # SearchTerm => (event'.op = "search" /\ event'.outcome # "ignored")
     /\ event'.op \in {"h", "l", "n", "N", "q", "move", "J", "K"} => SearchTerm' = SearchTerm
     /\ (event'.op \in {"n", "N"} /\ SearchTerm # <<>>) => event'.outcome # "ignored"
     /\ (event'.op \in {"n", "N"} /\ event'.outcome = "ok")
          => Contains(CurrentBlame'.Lines[CursorPosition' + 1], SearchTerm)]_vars

\* n found the term of an earlier search in the revision that h has just loaded
C31_Witness ==
  /\ event.op = "n" /\ event.outcome = "ok"
  /\ prev.op = "h" /\ prev.outcome = "ok"
  /\ SearchTerm # <<>> /\ History # <<>>
  /\ Contains(CurrentBlame.Lines[CursorPosition + 1], SearchTerm)


\* C32: a search (submitted, n or N) that finds no line leaves the cursor and
\* the rest of the session where they were; a search that finds one moves the
\* cursor to that line, a line other than the one it started from and one that
\* contains the term, and changes nothing else of the revision on display.
C32_SearchMovesCursorToMatchOnly ==
  Searched =>
    /\ event.outcome = "notfound" => Nav = event.pre
    /\ event.outcome = "ok" =>
         /\ CursorPosition \in Matches \ {event.pre.CursorPosition}
         /\ CursorPosition = scan[Len(scan)]
         /\ Nav = [event.pre EXCEPT !.CursorPosition = CursorPosition]

\* a search away from the first line that found nothing, and one that moved
\* the cursor backwards onto its line
C32_Witness ==
  \/ /\ Searched /\ event.outcome = "notfound"
     /\ CursorPosition = 2 /\ Matches = {} /\ History # <<>>
  \/ /\ Searched /\ event.outcome = "ok" /\ event.op = "search"
     /\ CursorPosition < event.pre.CursorPosition


\* C33: once the initial load has succeeded, whatever keys follow (h, l, a
\* search, n, N, J, K, moves), the cursor is an index of the lines on display
\* and the snapshot has a Chunk for it.
C33_CursorIsValidIndex ==
  (event.op # "none" /\ ~(event.op = "load" /\ event.outcome = "failed"))
    => /\ CursorPosition \in 0..(Len(CurrentBlame.Lines) - 1)
       /\ HasChunk(CurrentBlame, CursorPosition)


\* C34: the History stack is empty exactly when CurrentCommitId is "" (the
\* working tree is on display); the bottom item of a non-empty stack has the
\* CommitId "" and every item above it a commit's id.
C34_HistoryAndCommitId ==
  /\ (History = <<>>) <=> (CurrentCommitId = "")
  /\ History # <<>> => History[1].CommitId = ""
  /\ \A i \in 2..Len(History) : History[i].CommitId # ""

\* l came back to a revision reached by h, with one item left below it
C34_Witness ==
  /\ event.op = "l" /\ event.outcome = "ok" /\ session = "running"
  /\ Len(History) = 1 /\ CurrentCommitId # ""
  /\ event.pre.History[2].CommitId = CurrentCommitId


\* C35: while the session lives, History has as many items as h has
\* succeeded more often than l; a successful h puts one item on top of the
\* items there, a successful l takes the top item off and leaves those below,
\* and a rejected or failed key, like every other key, leaves History alone.
C35_HistoryIsAStack ==
  session # "crashed" =>
    /\ Len(History) = depth
    /\ (event.op = "h" /\ event.outcome = "ok")
         => History = Append(event.pre.History, History[Len(History)])
    /\ (event.op = "l" /\ event.outcome = "ok")
         => /\ event.pre.History # <<>>
            /\ History = SubSeq(event.pre.History, 1, Len(event.pre.History) - 1)
    /\ (event.op \notin {"h", "l"} \/ event.outcome # "ok") => History = event.pre.History

\* h, h, l: the second item was taken off and the first is still there; and
\* an l that failed with two items on the stack
C35_Witness ==
  \/ /\ event.op = "l" /\ event.outcome = "ok" /\ prev.op = "h" /\ prev.outcome = "ok"
     /\ Len(History) = 1 /\ depth = 1 /\ History[1].CommitId = ""
  \/ /\ event.op = "l" /\ event.outcome = "failed" /\ Len(History) = 2


\* ------------------------------------------------------ the subprocess (C36)
\* C36: when a GitBlame call that started its subprocess has returned, with a
\* snapshot or with an error, the subprocess has been waited for.
C36_ReturnedMeansWaited ==
  (pc = "done" /\ proc # "none") => proc = "waited"


\* C37: with the cursor on a line that contains the stored term and the term
\* in at least one other line, n followed by N brings the cursor back to the
\* line it started from, and so does N followed by n.
C37_NextThenPreviousReturns ==
  (/\ {event.op, prev.op} = {"n", "N"}
   /\ prev.outcome # "ignored"
   /\ prev.pre.CursorPosition \in Matches
   /\ Cardinality(Matches) >= 2)
    => /\ prev.outcome = "ok" /\ event.outcome = "ok"
       /\ event.pre.CursorPosition # prev.pre.CursorPosition
       /\ CursorPosition = prev.pre.CursorPosition

\* n then N, and N then n, from the middle one of three lines with the term
C37_Witness ==
  /\ {event.op, prev.op} = {"n", "N"}
  /\ prev.outcome = "ok" /\ event.outcome = "ok"
  /\ Cardinality(Matches) = 3
  /\ \E m \in Matches : m < CursorPosition
  /\ \E m \in Matches : m > CursorPosition
  /\ CursorPosition = prev.pre.CursorPosition


\* C38: after a search has been submitted the stored term is not empty, so
\* that performSearch never looks for the empty string.
C38_StoredTermNotEmpty ==
  (event.op = "search" /\ event.outcome # "ignored") => SearchTerm # <<>>


\* ------------------------------------------------------ remote address (C39)
\* C39: parseRemoteUrl returns a RemoteInfo or an error for every address and
\* never fails with an index out of range, also for an address that starts
\* with git@ and has no ":".
C39_ParseNeverCrashes ==
  lpc # "raw" => (lpc # "crashed" /\ ~remote.panicked)


\* --------------------------------------------------- uncommitted lines (C40)
\* C40: on a line whose Chunk has the all-zero CommitId of uncommitted
\* changes, ll and cl end with the "not committed" error: no link is built,
\* the remote address is not looked up (so that an address that cannot be
\* parsed does no harm), and the session goes on.
C40_NotCommittedIsRejected ==
  (/\ Linked
   /\ HasChunk(CurrentBlame, CursorPosition)
   /\ ChunkAt(CurrentBlame, CursorPosition).CommitId = NotCommittedId)
    => /\ event.outcome = "failed"
       /\ link = [url |-> <<>>, err |-> <<"not committed">>]
       /\ remote = NoRemote
       /\ status.error
       /\ session = "running"

\* cl on an uncommitted line of a repository whose remote address has no ":"
C40_Witness ==
  /\ event.op = "cl" /\ event.env = "ok"
  /\ world = "dirty" /\ raw = <<"git@", "github.com">>
  /\ ChunkAt(CurrentBlame, CursorPosition).CommitId = NotCommittedId
  /\ link.err = <<"not committed">> /\ session = "running"

====
